---- MODULE Spec2Model ----
(***************************************************************************)
(* Model of the data-acquisition client of the facility availability       *)
(* browser: class ApiService (src/api/ApiService.ts, and its older         *)
(* JavaScript edition src/api/ApiService.js).                              *)
(*                                                                         *)
(* The client runs on one JavaScript event loop.  Every `await` of the     *)
(* source is a suspension point; the code between two awaits runs without  *)
(* interruption and is one action of the model.  Several calls may be in   *)
(* flight at once and their continuations interleave in any order.         *)
(*                                                                         *)
(* Spec and SpecJs run the cookie refresh and the availability queries of  *)
(* the two editions, SpecSeq runs the queries one at a time with every     *)
(* choice of dates, SpecCatalog runs the catalog loader over every         *)
(* document, SpecCache runs it while the document is rewritten.            *)
(*                                                                         *)
(* The presentation layer is modelled component by component: SpecBooking  *)
(* runs the search page (FacilityBookingUI, src/unnamed/part_001) with its *)
(* batch of concurrent queries, SpecResources the facility dropdown and    *)
(* the resource list (src/pages/index.tsx, ResourceList.tsx), SpecCalendar *)
(* the weekly calendar (TimeView, src/unnamed/part_004), SpecApp the       *)
(* start-up of the Electron main process (src/main.ts).  Each of these     *)
(* specifications leaves the variables of the other components alone.      *)
(***************************************************************************)
EXTENDS Integers, Sequences, FiniteSets, TLC

\* ------------------------------------------------------------------------
\* Bounds of the model.
\* ------------------------------------------------------------------------
MaxCalls == 2      \* calls made to the client during one run
MaxHarvest == 2    \* cookies page.cookies() reports for one navigation

CallIds == 1..MaxCalls

\* ------------------------------------------------------------------------
\* Values.
\* ------------------------------------------------------------------------
\* The cookies the landing page can set.
Cookie == { [name |-> "JSESSIONID", value |-> "a1"],
            [name |-> "BIGipServer", value |-> "c3"] }

\* Every list page.cookies() can report: names may repeat (same name set
\* for different paths).
RECURSIVE SeqsUpTo(_, _)
SeqsUpTo(S, n) ==
    IF n = 0 THEN {<<>>}
    ELSE LET shorter == SeqsUpTo(S, n - 1)
         IN  shorter \cup {Append(s, x) : s \in {t \in shorter : Len(t) = n - 1}, x \in S}

Harvests == SeqsUpTo(Cookie, MaxHarvest)

\* Response bodies after axios has decoded them.  A body is a tagged value;
\* v is its JSON text.
Bodies == { [kind |-> "object",  v |-> "{\"ok\":true}"],
            [kind |-> "string",  v |-> ""] }
NoBody == [kind |-> "undefined", v |-> ""]
TrueBody == [kind |-> "boolean", v |-> "true"]

\* JavaScript truthiness of a decoded body (the test `&& response.data`).
Truthy(b) ==
    CASE b.kind = "object"    -> TRUE
      [] b.kind = "array"     -> TRUE
      [] b.kind = "string"    -> b.v # ""
      [] b.kind = "number"    -> b.v # "0"
      [] b.kind = "boolean"   -> b.v = "true"
      [] OTHER                -> FALSE

\* Status codes the backend answers with, and their reason phrases.
OkStatus == 200
OtherSuccessStatuses == {204}     \* 2xx answers other than 200
ErrorStatuses == {403}       \* answers axios turns into a rejection
statusText(s) ==
    CASE s = 200 -> "OK"
      [] s = 204 -> "No Content"
      [] OTHER   -> "Forbidden"

\* Messages are kept as the list of pieces the template literal joins.
Contains(msg, piece) == \E i \in 1..Len(msg) : msg[i] = piece

\* ------------------------------------------------------------------------
\* Errors raised by the libraries the client drives (puppeteer, axios).
\* ------------------------------------------------------------------------
navigationTimeout == 30000
dailyTimeout == 10000
weeklyTimeout == 15000

Error(msg) == [isError |-> TRUE, message |-> msg]

LaunchErrors == { Error(<<"Failed to launch the browser process!">>) }
NavigationErrors ==
    { Error(<<"Navigation timeout of ", ToString(navigationTimeout), " ms exceeded">>),
      Error(<<"net::ERR_INTERNET_DISCONNECTED at ", "/reservation/landing/search">>) }
CookieReadErrors == { Error(<<"Protocol error (Network.getCookies): Target closed">>) }

\* axios rejects a response whose status is outside 2xx (its default
\* validateStatus), a request that exceeds config.timeout, and a transport
\* failure.
StatusError(s) == Error(<<"Request failed with status code ", ToString(s)>>)
TimeoutError(ms) == Error(<<"timeout of ", ToString(ms), "ms exceeded">>)
NetworkError == Error(<<"Network Error">>)

\* `error instanceof Error ? error.message : fallback`
errorMessage(e, fallback) == IF e.isError THEN e.message ELSE <<fallback>>

\* ------------------------------------------------------------------------
\* Results handed to the caller.  One record shape serves every operation:
\*   state     "pending" | "returned" | "thrown"
\*   wrapped   TRUE for an ApiResponse-like object {success, ...},
\*             FALSE when the payload itself is returned (ApiService.js)
\*   cookieCount  -1 when the field is absent
\* ------------------------------------------------------------------------
NoResult ==
    [state |-> "pending", wrapped |-> FALSE, success |-> FALSE, data |-> NoBody,
     error |-> <<>>, message |-> <<>>, cookieCount |-> -1]
Success(d, m, n) ==
    [state |-> "returned", wrapped |-> TRUE, success |-> TRUE, data |-> d,
     error |-> <<>>, message |-> m, cookieCount |-> n]
Failure(msg) ==
    [state |-> "returned", wrapped |-> TRUE, success |-> FALSE, data |-> NoBody,
     error |-> msg, message |-> <<>>, cookieCount |-> -1]
Payload(d) ==
    [state |-> "returned", wrapped |-> FALSE, success |-> FALSE, data |-> d,
     error |-> <<>>, message |-> <<>>, cookieCount |-> -1]
Thrown(e) ==
    [state |-> "thrown", wrapped |-> FALSE, success |-> FALSE, data |-> NoBody,
     error |-> e.message, message |-> <<>>, cookieCount |-> -1]

\* What a catalog operation settles with.  `hasData` tells whether the
\* object has a data property; an unwrapped result (ApiService.js) is the
\* list itself.
NoCatResult ==
    [state |-> "pending", wrapped |-> FALSE, success |-> FALSE, hasData |-> FALSE,
     data |-> <<>>, error |-> <<>>]
CatSuccess(d) ==
    [state |-> "returned", wrapped |-> TRUE, success |-> TRUE, hasData |-> TRUE,
     data |-> d, error |-> <<>>]
CatFailure(msg, withData) ==
    [state |-> "returned", wrapped |-> TRUE, success |-> FALSE, hasData |-> withData,
     data |-> <<>>, error |-> msg]
CatPayload(d) ==
    [state |-> "returned", wrapped |-> FALSE, success |-> FALSE, hasData |-> TRUE,
     data |-> d, error |-> <<>>]
CatThrown(e) ==
    [state |-> "thrown", wrapped |-> FALSE, success |-> FALSE, hasData |-> FALSE,
     data |-> <<>>, error |-> e.message]

\* ------------------------------------------------------------------------
\* The cookie jar: a JavaScript object, i.e. name/value entries in insertion
\* order with unique names.
\* ------------------------------------------------------------------------
EmptyJar == <<>>

HasKey(jar, n) == \E i \in 1..Len(jar) : jar[i].name = n

\* acc[cookie.name] = cookie.value
setEntry(acc, c) ==
    IF HasKey(acc, c.name)
    THEN [i \in 1..Len(acc) |-> IF acc[i].name = c.name THEN c ELSE acc[i]]
    ELSE Append(acc, c)

\* cookies.reduce((acc, cookie) => { acc[cookie.name] = cookie.value; return acc }, {})
RECURSIVE reduceFrom(_, _)
reduceFrom(acc, cs) ==
    IF cs = <<>> THEN acc ELSE reduceFrom(setEntry(acc, Head(cs)), Tail(cs))
reduceCookies(cs) == reduceFrom(EmptyJar, cs)

\* The mapping a jar denotes, and the mapping a reported cookie list denotes
\* (the last cookie of a name gives the value).
JarAsMap(jar) ==
    [n \in {jar[i].name : i \in 1..Len(jar)} |->
        (CHOOSE c \in {jar[i] : i \in 1..Len(jar)} : c.name = n).value]
HarvestMap(cs) ==
    [n \in {cs[i].name : i \in 1..Len(cs)} |->
        LET last == CHOOSE i \in 1..Len(cs) :
                        /\ cs[i].name = n
                        /\ \A j \in (i + 1)..Len(cs) : cs[j].name # n
        IN  cs[last].value]
UniqueNames(jar) == \A i, j \in 1..Len(jar) : jar[i].name = jar[j].name => i = j

\* Variant: the harvested cookies are written into the existing object.
assignCookies_merge(old, harvested) == reduceFrom(old, harvested)

\* this.cookies = <the reduced object>: the field is rebound to the new object.
assignCookies(old, harvested) == harvested

\* Object.entries(this.cookies).map(([name, value]) => `${name}=${value}`).join('; ')
RECURSIVE joinPairs(_)
joinPairs(jar) ==
    IF jar = <<>> THEN <<>>
    ELSE LET one == <<jar[1].name, "=", jar[1].value>>
         IN  IF Len(jar) = 1 THEN one ELSE one \o <<"; ">> \o joinPairs(Tail(jar))

\* ------------------------------------------------------------------------
\* The catalog document all_facilities.json, as the loader meets it: the file
\* is missing, or its text is not JSON, or JSON.parse yields a value.  The
\* expected value is an object mapping each center name to a record with a
\* `facilities` list; its keys are unique and kept in the order
\* Object.entries() and Object.keys() walk them.  (Names that look like
\* array indices, which a JavaScript object moves to the front, are not among
\* the names used here.)
\* ------------------------------------------------------------------------
MaxCenters == 2      \* centers of one catalog document
MaxResources == 2    \* resources listed under one center

\* Center names: an upper-case initial, a lower-case initial, and the empty
\* string, which is a legal JSON key.
CenterNames == {"", "Burnhamthorpe", "arena"}

\* The position of a center name in the order sort() puts strings in when
\* it is given no comparator: by UTF-16 code units, so "" < "B..." < "a...".
codeUnitRank(name) ==
    CASE name = "" -> 0
      [] name = "Burnhamthorpe" -> 1
      [] name = "arena" -> 2

\* Resource records as written in the document: `named` tells whether the
\* record has a center_name property of its own.
RawFacilities ==
    { [id |-> "101", named |-> FALSE, center_name |-> ""],
      [id |-> "102", named |-> TRUE, center_name |-> "Old Hall"] }

ResourceLists == SeqsUpTo(RawFacilities, MaxResources)

FacilitiesArray(l) == [kind |-> "array", items |-> l]
FacilitiesAbsent == [kind |-> "absent", items |-> <<>>]
FacilitiesNumber == [kind |-> "number", items |-> <<>>]

CenterObject(f) == [kind |-> "object", facilities |-> f]
CenterNull == [kind |-> "null", facilities |-> FacilitiesAbsent]
CenterNumber == [kind |-> "number", facilities |-> FacilitiesAbsent]
\* Object.prototype.constructor, found under the name "constructor" in
\* every object
InheritedFunction == [kind |-> "function", facilities |-> FacilitiesAbsent]

\* Center records of the expected shape; the `facilities` list may be
\* missing.
ExpectedCenterData ==
    {CenterObject(FacilitiesArray(l)) : l \in ResourceLists}
        \cup {CenterObject(FacilitiesAbsent)}

\* Values JSON allows in the place of a center record.
OtherCenterData == {CenterNull, CenterNumber, CenterObject(FacilitiesNumber)}

CenterLists(D) ==
    UNION { {s \in [1..n -> [key : CenterNames, data : D]] :
                \A i, j \in 1..n : s[i].key = s[j].key => i = j}
            : n \in 0..MaxCenters }

MissingDocument == [file |-> "missing", top |-> "none", centers |-> <<>>]
GarbledDocument == [file |-> "garbled", top |-> "none", centers |-> <<>>]
JsonNull == [file |-> "json", top |-> "null", centers |-> <<>>]
JsonEmptyArray == [file |-> "json", top |-> "array", centers |-> <<>>]
JsonObject(cs) == [file |-> "json", top |-> "object", centers |-> cs]

\* Documents of the expected mapping shape, and all documents.
ExpectedDocuments == {JsonObject(cs) : cs \in CenterLists(ExpectedCenterData)}
Documents ==
    {JsonObject(cs) : cs \in CenterLists(ExpectedCenterData \cup OtherCenterData)}
        \cup {MissingDocument, GarbledDocument, JsonNull, JsonEmptyArray}

HasCenter(doc, name) == \E i \in 1..Len(doc.centers) : doc.centers[i].key = name
CenterAt(doc, name) ==
    doc.centers[CHOOSE i \in 1..Len(doc.centers) : doc.centers[i].key = name]

\* Number of resources listed in a document of the expected shape.
RECURSIVE countFrom(_, _)
countFrom(cs, i) ==
    IF i > Len(cs) THEN 0
    ELSE Len(cs[i].data.facilities.items) + countFrom(cs, i + 1)
TotalResources(doc) == countFrom(doc.centers, 1)

\* The arguments callers pass to the queries: a facility id and date
\* strings, the second date earlier than the first.
facility == "4001"
today == "2025-09-14"
lastWeek == "2025-09-08"
Dates == {today, lastWeek}

\* ------------------------------------------------------------------------
\* State.
\* ------------------------------------------------------------------------
VARIABLES
    impl,          \* "ts" (ApiService.ts) or "js" (ApiService.js); fixed
    cookies,       \* this.cookies
    browsers,      \* calls whose puppeteer browser is open
    kind,          \* per call: "none" | "refresh" | "daily" | "weekly"
    pc,            \* per call: the await the call is suspended at
    pending,       \* per call: value refreshCookies returns once finally is done
    result,        \* per call: what the caller's promise settled with
    startedEmpty,  \* per query: the jar was empty when the call started
    launches,      \* per call: number of puppeteer.launch() invocations
    requests,      \* per call: number of axios(config) invocations
    sent,          \* per call: the config of the request in flight
    response,      \* per call: what axios settled with
    args,          \* per query: the arguments it was called with
    refreshed,     \* per call: how its refreshCookies ended:
                   \*   "no" | "ok" | "failed" (failure result) | "threw"
    installed,     \* name -> value, read off the list page.cookies() reported
                   \* to the refresh that assigned this.cookies last
    document,      \* the content of all_facilities.json
    facilitiesCache,  \* this.facilitiesCache
    cat,           \* the catalog operation under way or last finished
    lastAll,       \* the getAllFacilities call finished last: what it read
                   \* and returned, whether it was the first such call
                   \* (calls = 1) or a later one (calls = 2), and whether
                   \* it read another content than the call before it
    home,          \* state of Home: selectedFacility, selectedResource,
                   \* persistedWeekStart
    resourceList,  \* state of ResourceList, and its getFacilitiesByCenter
                   \* requests in flight (the center each was made for)
    timeView,      \* state of TimeView, its weekly requests in flight and
                   \* the request it issued last (requested)
    facilityBookingApp,  \* the FacilityBookingApp object and its start-up:
                   \* how far the whenReady callback got (phase), the
                   \* promise of startNextServer, its two timers, the
                   \* windows created
    booking        \* the FacilityBookingUI object: its fields, where its
                   \* searchAvailability stands (pc), the date it read
                   \* (selectedDate), how far the mapper of each facility
                   \* got (mappers), what the queries that resolved
                   \* resolved with (answers), and whether the date input changed
                   \* since the batch was issued (dateChanged)

apiVars == <<impl, cookies, browsers, kind, pc, pending, result, startedEmpty,
             launches, requests, sent, response, args, refreshed, installed>>
catalogVars == <<document, facilitiesCache, cat, lastAll>>
pageVars == <<home, resourceList, timeView>>
uiVars == <<booking, pageVars, facilityBookingApp>>
vars == <<apiVars, catalogVars, uiVars>>

NoArgs == [facilityId |-> "", date |-> "", startDate |-> "", endDate |-> ""]
NoParams == [start_date |-> "", end_date |-> ""]
NoConfig ==
    [timeout |-> 0, facilityId |-> "", params |-> NoParams,
     hasCookie |-> FALSE, Cookie |-> <<>>]
NoResponse == [settled |-> "none", status |-> 0, data |-> NoBody, error |-> Error(<<>>)]
Resolved(s, b) == [settled |-> "resolved", status |-> s, data |-> b, error |-> Error(<<>>)]
Rejected(e) == [settled |-> "rejected", status |-> 0, data |-> NoBody, error |-> e]

InitCommon ==
    /\ cookies = EmptyJar
    /\ browsers = {}
    /\ kind = [c \in CallIds |-> "none"]
    /\ pc = [c \in CallIds |-> "idle"]
    /\ pending = [c \in CallIds |-> NoResult]
    /\ result = [c \in CallIds |-> NoResult]
    /\ startedEmpty = [c \in CallIds |-> FALSE]
    /\ launches = [c \in CallIds |-> 0]
    /\ requests = [c \in CallIds |-> 0]
    /\ sent = [c \in CallIds |-> NoConfig]
    /\ response = [c \in CallIds |-> NoResponse]
    /\ args = [c \in CallIds |-> NoArgs]
    /\ refreshed = [c \in CallIds |-> "no"]
    /\ installed = HarvestMap(<<>>)

\* The loader after construction, with one of the documents D on disk.
NullCache == [loaded |-> FALSE, facilities |-> <<>>]
NoCatalogCall ==
    [op |-> "none", centerName |-> "", pc |-> "idle", reads |-> 0,
     read |-> MissingDocument, result |-> NoCatResult]
InitCatalog(D) ==
    /\ document \in D
    /\ facilitiesCache = NullCache
    /\ cat = NoCatalogCall
    /\ lastAll = [calls |-> 0, changed |-> FALSE, read |-> MissingDocument,
                  result |-> NoCatResult]

\* ------------------------------------------------------------------------
\* The search page (class FacilityBookingUI): its fields and the queries of
\* the batch searchAvailability has issued.
\* ------------------------------------------------------------------------
MaxFacilities == 3    \* facilities the catalog gave the page

\* facility.id of the facilities of this.facilities; ids are distinct.
FacilityIds == 1..MaxFacilities

\* What window.electronAPI.getFacilityAvailability(id, date) resolves with:
\* the result object of the client for this request, a success carrying
\* the body or a failure result.
Availability(id, date, ok) == [facilityId |-> id, date |-> date, success |-> ok]
NoAvailability == [facilityId |-> 0, date |-> "", success |-> FALSE]
Availabilities(id, date) == {Availability(id, date, ok) : ok \in BOOLEAN}

\* new Map(), and availabilityData.get(id) === undefined
EmptyMap == [id \in FacilityIds |-> NoAvailability]

\* What updateFacilitiesDisplay renders: a card for every facility of
\* filteredFacilities, with what availabilityData.get(facility.id) is.
cards(filteredFacilities, availabilityData) ==
    [id \in FacilityIds |->
        IF id \in filteredFacilities THEN availabilityData[id] ELSE NoAvailability]

\* The page once loadFacilities has finished: every facility passes the
\* filter, a date is in the date input.
InitBooking ==
    booking =
        [filteredFacilities |-> FacilityIds,
         bookingDate |-> today,
         availabilityData |-> EmptyMap,
         isLoading |-> FALSE,
         status |-> "success",
         facilitiesList |-> cards(FacilityIds, EmptyMap),
         pc |-> "idle",
         selectedDate |-> "",
         mappers |-> [id \in FacilityIds |-> "none"],
         answers |-> EmptyMap,
         dateChanged |-> FALSE]

\* ------------------------------------------------------------------------
\* The calendar page (Home, ResourceList, TimeView): dates, resources and
\* the state of the three components.
\* ------------------------------------------------------------------------
MaxWeek == 2        \* weeks 0..MaxWeek can be shown; the present week is week 1
MaxInFlight == 2    \* requests one component has in flight at a time

\* A JavaScript Date: the calendar day it falls on in local time (days are
\* numbered from the Monday of week 0), and by how many days its UTC
\* calendar date differs from the local one (the time of day and the zone
\* decide; west of Greenwich the late hours of a day are the next day in
\* UTC).
Date(day, utcShift) == [day |-> day, utcShift |-> utcShift]
UtcShifts == {0, 1}
NoDate == [day |-> -1, utcShift |-> 0]
DaysOfWeek == 7
Wednesday == 2
Sunday == 6

\* new Date(): some moment of the Wednesday or the Sunday of week 1.
Nows == {Date(DaysOfWeek + d, u) : d \in {Wednesday, Sunday}, u \in UtcShifts}

\* date.getDay(): 0 for Sunday, 1 for Monday, ..., 6 for Saturday.
getDay(date) == (date.day + 1) % DaysOfWeek

\* date.toISOString().split('T')[0]: the calendar date in UTC.
toISODate(date) == date.day + date.utcShift

\* d.setDate(d.getDate() + n): n days on, same time of day.
addDays(date, n) == [date EXCEPT !.day = @ + n]

\* getWeekRange(date)
getWeekRange(date) ==
    LET dayOfWeek == getDay(date)
        monday == addDays(date, 0 - (IF dayOfWeek = 0 THEN 6 ELSE dayOfWeek - 1))
        sunday == addDays(monday, 6)
    IN  [start |-> toISODate(monday), end |-> toISODate(sunday), monday |-> monday]

\* The facility centers of the dropdown and the resources
\* getFacilitiesByCenter returns for each.
ViewCenters == {"Burnhamthorpe", "Meadowvale", "arena"}
Resource(center, id) == [center_name |-> center, id |-> id]
NoResource == [center_name |-> "", id |-> ""]
resourcesOf(center) ==
    IF center = "Burnhamthorpe"
    THEN {Resource(center, "gym"), Resource(center, "room")}
    ELSE IF center = "Meadowvale" THEN {Resource(center, "pool")}
    ELSE IF center = "arena" THEN {Resource(center, "rink")}
    ELSE {}
Resources == UNION {resourcesOf(c) : c \in ViewCenters}

\* A weekly request and the events convertToBigCalendarEvents makes of the
\* data it was answered with.
WeeklyRequest(resource, startDate, endDate) ==
    [facilityId |-> resource.id, startDate |-> startDate, endDate |-> endDate]
NoWeekly == [facilityId |-> "", startDate |-> -1, endDate |-> -1]

InitHome ==
    home = [selectedFacility |-> "", selectedResource |-> NoResource,
            persistedWeekStart |-> NoDate]
InitResourceList ==
    resourceList = [resources |-> {}, loading |-> FALSE, error |-> FALSE,
                    inFlight |-> <<>>]
InitTimeView ==
    timeView = [weeklyData |-> NoWeekly, loading |-> FALSE, error |-> FALSE,
                events |-> NoWeekly, currentWeekStart |-> NoDate,
                inFlight |-> <<>>, requested |-> NoWeekly]

\* ------------------------------------------------------------------------
\* The Electron main process (class FacilityBookingApp, src/main.ts).
\* ------------------------------------------------------------------------
MaxOutput == 2    \* chunks the Next.js server writes to its stdout

\* The object after its constructor, before app.whenReady() is fulfilled.
InitApp(modes, platforms) ==
    /\ facilityBookingApp \in
           {[isDev |-> dev, platform |-> p, phase |-> "launching",
             nextProcess |-> "none", serverReady |-> FALSE, promise |-> "none",
             readyTimer |-> FALSE, fallbackTimer |-> FALSE, output |-> 0,
             startupWindows |-> 0, windows |-> 0, loaded |-> "nothing",
             activate |-> FALSE] : dev \in modes, p \in platforms}

InitUi ==
    /\ InitBooking /\ InitHome /\ InitResourceList /\ InitTimeView
    /\ InitApp({FALSE}, {"win32"})

Init == impl = "ts" /\ InitCommon /\ InitCatalog({JsonObject(<<>>)}) /\ InitUi
InitJs == impl = "js" /\ InitCommon /\ InitCatalog({JsonObject(<<>>)}) /\ InitUi

\* Calls are numbered in the order they are made.
NextToStart(c) == pc[c] = "idle" /\ \A d \in CallIds : d < c => pc[d] # "idle"

\* ------------------------------------------------------------------------
\* refreshCookies
\* ------------------------------------------------------------------------
\* The return value of the success path.
refreshSuccess(i, jar) ==
    IF i = "ts"
    THEN Success(TrueBody, <<"Got ", ToString(Len(jar)), " cookies">>, -1)
    ELSE Success(NoBody, <<>>, Len(jar))

\* The return value of the catch block.
refreshFailure(i, e) ==
    IF i = "ts" THEN Failure(errorMessage(e, "Unknown error")) ELSE Failure(e.message)

\* Variant: a call that finds a refresh under way joins it and launches no
\* browser of its own.
enterRefresh_shared(c) ==
    /\ pc' = [pc EXCEPT ![c] = "launch"]
    /\ launches' =
          IF \E d \in CallIds : pc[d] \in {"launch", "goto", "cookies", "close"}
          THEN launches
          ELSE [launches EXCEPT ![c] = @ + 1]

\* Entry of refreshCookies up to its first await: puppeteer.launch() is
\* invoked, before the try block is entered.
enterRefresh(c) ==
    /\ pc' = [pc EXCEPT ![c] = "launch"]
    /\ launches' = [launches EXCEPT ![c] = @ + 1]

\* A caller invokes refreshCookies() directly.
refreshCookies(c) ==
    /\ NextToStart(c)
    /\ kind' = [kind EXCEPT ![c] = "refresh"]
    /\ enterRefresh(c)
    /\ UNCHANGED <<impl, args, cookies, browsers, pending, result, startedEmpty, requests,
                   sent, response, refreshed, installed>>

\* puppeteer.launch() resolves: the browser runs and the try block is entered,
\* up to the await of the navigation (newPage, setUserAgent, goto).
launchResolved(c) ==
    /\ pc[c] = "launch"
    /\ browsers' = browsers \cup {c}
    /\ pc' = [pc EXCEPT ![c] = "goto"]
    /\ UNCHANGED <<impl, args, cookies, kind, pending, result, startedEmpty, launches,
                   requests, sent, response, refreshed, installed>>

\* puppeteer.launch() rejects.  The await is outside the try block, so
\* refreshCookies rejects; a query awaits refreshCookies outside its own try
\* block, so the query rejects as well.
launchRejected(c, e) ==
    /\ pc[c] = "launch"
    /\ pc' = [pc EXCEPT ![c] = "done"]
    /\ refreshed' = [refreshed EXCEPT ![c] = "threw"]
    /\ result' = [result EXCEPT ![c] = Thrown(e)]
    /\ UNCHANGED <<impl, args, cookies, browsers, kind, pending, startedEmpty, launches,
                   requests, sent, response, installed>>

\* newPage, setUserAgent and goto all resolve; page.cookies() is awaited.
gotoResolved(c) ==
    /\ pc[c] = "goto"
    /\ pc' = [pc EXCEPT ![c] = "cookies"]
    /\ UNCHANGED <<impl, args, cookies, browsers, kind, pending, result, startedEmpty,
                   launches, requests, sent, response, refreshed, installed>>

\* Variant: the catch block also resets the jar.
gotoRejected_clearsJar(c, e) ==
    /\ pc[c] = "goto"
    /\ cookies' = EmptyJar
    /\ pending' = [pending EXCEPT ![c] = refreshFailure(impl, e)]
    /\ pc' = [pc EXCEPT ![c] = "close"]
    /\ UNCHANGED <<impl, args, browsers, kind, result, startedEmpty, launches,
                   requests, sent, response, refreshed, installed>>

\* One of newPage, setUserAgent, goto rejects: catch block, then finally
\* awaits browser.close().
gotoRejected(c, e) ==
    /\ pc[c] = "goto"
    /\ pending' = [pending EXCEPT ![c] = refreshFailure(impl, e)]
    /\ pc' = [pc EXCEPT ![c] = "close"]
    /\ UNCHANGED <<impl, args, cookies, browsers, kind, result, startedEmpty, launches,
                   requests, sent, response, refreshed, installed>>

\* Variant: the count reported is the length of the list page.cookies()
\* delivered.
cookiesResolved_countsHarvest(c, cs) ==
    /\ pc[c] = "cookies"
    /\ cookies' = assignCookies(cookies, reduceCookies(cs))
    /\ installed' = HarvestMap(cs)
    /\ pending' = [pending EXCEPT ![c] = refreshSuccess(impl, cs)]
    /\ pc' = [pc EXCEPT ![c] = "close"]
    /\ UNCHANGED <<impl, args, browsers, kind, result, startedEmpty, launches, requests,
                   sent, response, refreshed>>

\* page.cookies() resolves with the list cs: the jar is assigned, the return
\* value is built from the jar, and finally awaits browser.close().
cookiesResolved(c, cs) ==
    /\ pc[c] = "cookies"
    /\ cookies' = assignCookies(cookies, reduceCookies(cs))
    /\ installed' = HarvestMap(cs)
    /\ pending' = [pending EXCEPT ![c] = refreshSuccess(impl, cookies')]
    /\ pc' = [pc EXCEPT ![c] = "close"]
    /\ UNCHANGED <<impl, args, browsers, kind, result, startedEmpty, launches, requests,
                   sent, response, refreshed>>

\* page.cookies() rejects.
cookiesRejected(c, e) ==
    /\ pc[c] = "cookies"
    /\ pending' = [pending EXCEPT ![c] = refreshFailure(impl, e)]
    /\ pc' = [pc EXCEPT ![c] = "close"]
    /\ UNCHANGED <<impl, args, cookies, browsers, kind, result, startedEmpty, launches,
                   requests, sent, response, refreshed, installed>>

\* ------------------------------------------------------------------------
\* getFacilityAvailability / getFacilityWeeklyAvailability
\* ------------------------------------------------------------------------
requestTimeout(k) == IF k = "daily" THEN dailyTimeout ELSE weeklyTimeout

\* The arguments of the two queries.
dailyArgs(facilityId, date) ==
    [facilityId |-> facilityId, date |-> date, startDate |-> "", endDate |-> ""]
weeklyArgs(facilityId, startDate, endDate) ==
    [facilityId |-> facilityId, date |-> "", startDate |-> startDate, endDate |-> endDate]

\* Variant: a range given backwards is put in order.
buildParams_ordersRange(k, a) ==
    IF k = "daily"
    THEN [start_date |-> a.date, end_date |-> a.date]
    ELSE IF a.startDate = today /\ a.endDate = lastWeek
         THEN [start_date |-> lastWeek, end_date |-> today]
         ELSE [start_date |-> a.startDate, end_date |-> a.endDate]

\* The date parameters of the query string: the daily query passes its one
\* date as both ends of the range, the weekly query passes its two dates on.
buildParams(k, a) ==
    IF k = "daily"
    THEN [start_date |-> a.date, end_date |-> a.date]
    ELSE [start_date |-> a.startDate, end_date |-> a.endDate]

\* Variant: only the first entry of the jar is sent.
buildConfig_firstCookieOnly(k, jar, a) ==
    IF Len(jar) > 0
    THEN [timeout |-> requestTimeout(k), facilityId |-> a.facilityId,
          params |-> buildParams(k, a), hasCookie |-> TRUE,
          Cookie |-> joinPairs(<<jar[1]>>)]
    ELSE [timeout |-> requestTimeout(k), facilityId |-> a.facilityId,
          params |-> buildParams(k, a), hasCookie |-> FALSE, Cookie |-> <<>>]

\* The AxiosRequestConfig, with the Cookie header when the jar has entries.
buildConfig(k, jar, a) ==
    IF Len(jar) > 0
    THEN [timeout |-> requestTimeout(k), facilityId |-> a.facilityId,
          params |-> buildParams(k, a), hasCookie |-> TRUE, Cookie |-> joinPairs(jar)]
    ELSE [timeout |-> requestTimeout(k), facilityId |-> a.facilityId,
          params |-> buildParams(k, a), hasCookie |-> FALSE, Cookie |-> <<>>]

\* From the end of the cookie check to `await axios(config)`.
issueRequest(c, k, a) ==
    /\ sent' = [sent EXCEPT ![c] = buildConfig(k, cookies, a)]
    /\ requests' = [requests EXCEPT ![c] = @ + 1]
    /\ pc' = [pc EXCEPT ![c] = "axios"]

\* Variant: the query refreshes whatever the jar holds.
enterQuery_alwaysRefresh(c, k, a) ==
    /\ NextToStart(c)
    /\ kind' = [kind EXCEPT ![c] = k]
    /\ args' = [args EXCEPT ![c] = a]
    /\ startedEmpty' = [startedEmpty EXCEPT ![c] = (Len(cookies) = 0)]
    /\ enterRefresh(c)
    /\ UNCHANGED <<impl, cookies, browsers, pending, result, requests, sent, response,
                   refreshed, installed>>

\* Entry of a query: `if (Object.keys(this.cookies).length === 0)
\* await this.refreshCookies()`, else straight on to the request.
enterQuery(c, k, a) ==
    /\ NextToStart(c)
    /\ kind' = [kind EXCEPT ![c] = k]
    /\ args' = [args EXCEPT ![c] = a]
    /\ startedEmpty' = [startedEmpty EXCEPT ![c] = (Len(cookies) = 0)]
    /\ IF Len(cookies) = 0
       THEN enterRefresh(c) /\ UNCHANGED <<requests, sent>>
       ELSE issueRequest(c, k, a) /\ UNCHANGED launches
    /\ UNCHANGED <<impl, cookies, browsers, pending, result, response, refreshed,
                   installed>>

getFacilityAvailability(c, facilityId, date) ==
    enterQuery(c, "daily", dailyArgs(facilityId, date))
getFacilityWeeklyAvailability(c, facilityId, startDate, endDate) ==
    enterQuery(c, "weekly", weeklyArgs(facilityId, startDate, endDate))

\* Variant: no finally block, the browser is left running.
closeResolved_leak(c) ==
    /\ pc[c] = "close"
    /\ pending' = [pending EXCEPT ![c] = NoResult]
    /\ refreshed' = [refreshed EXCEPT ![c] = IF pending[c].success THEN "ok" ELSE "failed"]
    /\ IF kind[c] = "refresh"
       THEN /\ pc' = [pc EXCEPT ![c] = "done"]
            /\ result' = [result EXCEPT ![c] = pending[c]]
            /\ UNCHANGED <<requests, sent>>
       ELSE /\ issueRequest(c, kind[c], args[c])
            /\ UNCHANGED result
    /\ UNCHANGED <<impl, args, cookies, browsers, kind, startedEmpty, launches, response,
                   installed>>

\* Variant: a query does not wait for browser.close(); it goes on to its
\* request with the browser of its refresh still open.
closeResolved_queryKeepsBrowser(c) ==
    /\ pc[c] = "close"
    /\ browsers' = IF kind[c] = "refresh" THEN browsers \ {c} ELSE browsers
    /\ pending' = [pending EXCEPT ![c] = NoResult]
    /\ refreshed' = [refreshed EXCEPT ![c] = IF pending[c].success THEN "ok" ELSE "failed"]
    /\ IF kind[c] = "refresh"
       THEN /\ pc' = [pc EXCEPT ![c] = "done"]
            /\ result' = [result EXCEPT ![c] = pending[c]]
            /\ UNCHANGED <<requests, sent>>
       ELSE /\ issueRequest(c, kind[c], args[c])
            /\ UNCHANGED result
    /\ UNCHANGED <<impl, args, cookies, kind, startedEmpty, launches, response, installed>>

\* browser.close() resolves and the finally block ends: refreshCookies
\* returns the pending value.  A direct caller receives it.  A query that
\* awaited it drops the value and runs on, in the same turn of the event
\* loop, to build and send its request.
closeResolved(c) ==
    /\ pc[c] = "close"
    /\ browsers' = browsers \ {c}
    /\ pending' = [pending EXCEPT ![c] = NoResult]
    /\ refreshed' = [refreshed EXCEPT ![c] = IF pending[c].success THEN "ok" ELSE "failed"]
    /\ IF kind[c] = "refresh"
       THEN /\ pc' = [pc EXCEPT ![c] = "done"]
            /\ result' = [result EXCEPT ![c] = pending[c]]
            /\ UNCHANGED <<requests, sent>>
       ELSE /\ issueRequest(c, kind[c], args[c])
            /\ UNCHANGED result
    /\ UNCHANGED <<impl, args, cookies, kind, startedEmpty, launches, response, installed>>

failureFallback(k) ==
    IF k = "daily" THEN "Failed to get facility availability"
    ELSE "Failed to get weekly availability"

\* The catch block of a query.
availabilityCatch(i, k, e) ==
    IF i = "ts" THEN Failure(errorMessage(e, failureFallback(k))) ELSE Thrown(e)

\* Variant: the body is not tested before it is returned.
availabilityTry_noBodyCheck(i, k, s, b) ==
    IF s = 200
    THEN IF i = "ts" THEN Success(b, <<>>, -1) ELSE Payload(b)
    ELSE availabilityCatch(i, k, Error(<<"HTTP ", ToString(s), ": ", statusText(s)>>))

\* The body of the try block once axios has resolved with (status, data).
availabilityTry(i, k, s, b) ==
    IF s = 200 /\ Truthy(b)
    THEN IF i = "ts" THEN Success(b, <<>>, -1) ELSE Payload(b)
    ELSE availabilityCatch(i, k, Error(<<"HTTP ", ToString(s), ": ", statusText(s)>>))

\* axios resolves with a 2xx response.
axiosResolved(c, s, b) ==
    /\ pc[c] = "axios"
    /\ response' = [response EXCEPT ![c] = Resolved(s, b)]
    /\ result' = [result EXCEPT ![c] = availabilityTry(impl, kind[c], s, b)]
    /\ pc' = [pc EXCEPT ![c] = "done"]
    /\ sent' = [sent EXCEPT ![c] = NoConfig]
    /\ UNCHANGED <<impl, args, cookies, browsers, kind, pending, startedEmpty, launches,
                   requests, refreshed, installed>>

\* Variant: a rejected request empties the jar (stale session).
axiosRejected_clearsJar(c, e) ==
    /\ pc[c] = "axios"
    /\ cookies' = EmptyJar
    /\ response' = [response EXCEPT ![c] = Rejected(e)]
    /\ result' = [result EXCEPT ![c] = availabilityCatch(impl, kind[c], e)]
    /\ pc' = [pc EXCEPT ![c] = "done"]
    /\ sent' = [sent EXCEPT ![c] = NoConfig]
    /\ UNCHANGED <<impl, args, browsers, kind, pending, startedEmpty, launches,
                   requests, refreshed, installed>>

\* Variant: a rejected request is sent once more before the failure is
\* reported.
axiosRejected_retries(c, e) ==
    /\ pc[c] = "axios"
    /\ IF requests[c] < 2
       THEN /\ issueRequest(c, kind[c], args[c])
            /\ UNCHANGED <<response, result>>
       ELSE /\ response' = [response EXCEPT ![c] = Rejected(e)]
            /\ result' = [result EXCEPT ![c] = availabilityCatch(impl, kind[c], e)]
            /\ pc' = [pc EXCEPT ![c] = "done"]
            /\ sent' = [sent EXCEPT ![c] = NoConfig]
            /\ UNCHANGED requests
    /\ UNCHANGED <<impl, args, cookies, browsers, kind, pending, startedEmpty, launches,
                   refreshed, installed>>

\* Variant: a rejected request is sent again, as often as it is rejected.
axiosRejected_retriesForever(c, e) ==
    /\ pc[c] = "axios"
    /\ response' = [response EXCEPT ![c] = Rejected(e)]
    /\ UNCHANGED <<impl, args, cookies, browsers, kind, pc, pending, result,
                   startedEmpty, launches, requests, sent, refreshed, installed>>

\* axios rejects: non-2xx status, timeout or transport failure.
axiosRejected(c, e) ==
    /\ pc[c] = "axios"
    /\ response' = [response EXCEPT ![c] = Rejected(e)]
    /\ result' = [result EXCEPT ![c] = availabilityCatch(impl, kind[c], e)]
    /\ pc' = [pc EXCEPT ![c] = "done"]
    /\ sent' = [sent EXCEPT ![c] = NoConfig]
    /\ UNCHANGED <<impl, args, cookies, browsers, kind, pending, startedEmpty, launches,
                   requests, refreshed, installed>>

\* What axios can reject a request of call c with.
RequestErrors(c) ==
    {StatusError(s) : s \in ErrorStatuses}
        \cup {TimeoutError(requestTimeout(kind[c])), NetworkError}

\* What the backend can answer with a 2xx status.
SuccessResponses ==
    {<<OkStatus, b>> : b \in Bodies}
        \cup {<<s, [kind |-> "string", v |-> ""]>> : s \in OtherSuccessStatuses}

\* ------------------------------------------------------------------------
\* The catalog loader: getAllFacilities, getFacilitiesByCenter,
\* getUniqueCenters.
\* ------------------------------------------------------------------------
\* How a try block ends: with a value, or with an exception thrown.
Value(v) == [threw |-> FALSE, error |-> Error(<<>>), value |-> v]
Throw(e) == [threw |-> TRUE, error |-> e, value |-> <<>>]

\* The exceptions the runtime raises in the loader.
NoSuchFile == Error(<<"ENOENT: no such file or directory, open ", "all_facilities.json">>)
JsonSyntaxError == Error(<<"Unexpected token in JSON at position 0">>)
NullToObject == Error(<<"Cannot convert undefined or null to object">>)
PropertyOfNull == Error(<<"Cannot read properties of null">>)
NotIterable == Error(<<"centerFacilities is not iterable">>)
NotAFunction == Error(<<"facilities.forEach is not a function">>)

\* fs.readFile followed by JSON.parse
readAndParse(doc) ==
    IF doc.file = "missing" THEN Throw(NoSuchFile)
    ELSE IF doc.file = "garbled" THEN Throw(JsonSyntaxError)
    ELSE Value(doc)

\* Variant: a center_name the record already has is kept.
stamp_keepsExisting(f, centerName) ==
    IF f.named THEN f ELSE [f EXCEPT !.named = TRUE, !.center_name = centerName]

\* facility.center_name = centerName
stamp(f, centerName) == [f EXCEPT !.named = TRUE, !.center_name = centerName]

\* Variant: the records of a center come out last first.
stampAll_reversed(l, centerName) ==
    [i \in 1..Len(l) |-> stamp(l[Len(l) + 1 - i], centerName)]

\* The inner loop: every record of the list, in list order.
stampAll(l, centerName) == [i \in 1..Len(l) |-> stamp(l[i], centerName)]

\* centerData.facilities || []   (centerData is not null)
facilitiesOrEmpty(centerData) ==
    IF centerData.kind = "object" /\ centerData.facilities.kind # "absent"
    THEN centerData.facilities
    ELSE FacilitiesArray(<<>>)

\* The loop of getAllFacilities over Object.entries(facilitiesJson), from
\* entry i on, with the records pushed so far.
RECURSIVE flattenFrom(_, _, _)
flattenFrom(cs, i, facilities) ==
    IF i > Len(cs) THEN Value(facilities)
    ELSE IF cs[i].data.kind = "null" THEN Throw(PropertyOfNull)
    ELSE LET centerFacilities == facilitiesOrEmpty(cs[i].data)
         IN  IF centerFacilities.kind # "array" THEN Throw(NotIterable)
             ELSE flattenFrom(cs, i + 1,
                              facilities \o stampAll(centerFacilities.items, cs[i].key))

\* The try block of getAllFacilities.
getAllFacilitiesTry(doc) ==
    IF readAndParse(doc).threw THEN readAndParse(doc)
    ELSE IF doc.top = "null" THEN Throw(NullToObject)
    ELSE flattenFrom(doc.centers, 1, <<>>)

\* getAllFacilities as a whole, given what the try block came to.
getAllFacilitiesResult(i, r) ==
    IF r.threw
    THEN IF i = "ts" THEN CatFailure(errorMessage(r.error, "Failed to load facilities"), FALSE)
         ELSE CatThrown(r.error)
    ELSE IF i = "ts" THEN CatSuccess(r.value) ELSE CatPayload(r.value)

\* facilitiesJson[centerName]: an own key, or a property every object
\* inherits, or undefined
Undefined == [kind |-> "undefined", facilities |-> FacilitiesAbsent]
lookup(doc, centerName) ==
    IF HasCenter(doc, centerName) THEN CenterAt(doc, centerName).data
    ELSE IF centerName = "constructor" THEN InheritedFunction
    ELSE Undefined

\* Variant: a name the catalog does not have is an error.
getFacilitiesByCenterTry_unknownCenterFails(doc, centerName) ==
    IF readAndParse(doc).threw THEN readAndParse(doc)
    ELSE IF centerName = "" THEN Value(<<>>)
    ELSE IF doc.top = "null" THEN Throw(PropertyOfNull)
    ELSE IF lookup(doc, centerName).kind \in {"undefined", "null"}
         THEN Throw(Error(<<"Unknown center: ", centerName>>))
    ELSE LET facilities == facilitiesOrEmpty(lookup(doc, centerName))
         IN  IF facilities.kind # "array" THEN Throw(NotAFunction)
             ELSE Value(stampAll(facilities.items, centerName))

\* The try block of getFacilitiesByCenter.
getFacilitiesByCenterTry(doc, centerName) ==
    IF readAndParse(doc).threw THEN readAndParse(doc)
    ELSE IF centerName = "" THEN Value(<<>>)
    ELSE IF doc.top = "null" THEN Throw(PropertyOfNull)
    ELSE IF lookup(doc, centerName).kind \in {"undefined", "null"} THEN Value(<<>>)
    ELSE LET facilities == facilitiesOrEmpty(lookup(doc, centerName))
         IN  IF facilities.kind # "array" THEN Throw(NotAFunction)
             ELSE Value(stampAll(facilities.items, centerName))

getFacilitiesByCenterResult(i, r) ==
    IF r.threw
    THEN IF i = "ts"
         THEN CatFailure(errorMessage(r.error, "Failed to load facilities by center"), TRUE)
         ELSE CatPayload(<<>>)
    ELSE IF i = "ts" THEN CatSuccess(r.value) ELSE CatPayload(r.value)

\* Array.prototype.sort() without a comparator, as an insertion of each
\* key into the sorted keys before it.
insertSorted(sorted, k) ==
    LET p == Cardinality({j \in 1..Len(sorted) : codeUnitRank(sorted[j]) <= codeUnitRank(k)})
    IN  SubSeq(sorted, 1, p) \o <<k>> \o SubSeq(sorted, p + 1, Len(sorted))
RECURSIVE sortFrom(_, _, _)
sortFrom(keys, i, sorted) ==
    IF i > Len(keys) THEN sorted ELSE sortFrom(keys, i + 1, insertSorted(sorted, keys[i]))
\* Variant: the keys are returned as Object.keys() lists them.
sort_omitted(keys) == keys

sort(keys) == sortFrom(keys, 1, <<>>)

\* Object.keys(facilitiesJson)
keysOf(doc) == [i \in 1..Len(doc.centers) |-> doc.centers[i].key]

\* The try block of getUniqueCenters.
getUniqueCentersTry(doc) ==
    IF readAndParse(doc).threw THEN readAndParse(doc)
    ELSE IF doc.top = "null" THEN Throw(NullToObject)
    ELSE Value(sort(keysOf(doc)))

getUniqueCentersResult(i, r) ==
    IF r.threw
    THEN IF i = "ts" THEN CatFailure(errorMessage(r.error, "Failed to load centers"), TRUE)
         ELSE CatPayload(<<>>)
    ELSE IF i = "ts" THEN CatSuccess(r.value) ELSE CatPayload(r.value)

\* A catalog operation is entered and runs up to `await fs.readFile(...)`.
enterCatalog(op, centerName) ==
    /\ cat.pc \in {"idle", "done"}
    /\ cat' = [op |-> op, centerName |-> centerName, pc |-> "readFile", reads |-> 1,
               read |-> MissingDocument, result |-> NoCatResult]
    /\ UNCHANGED <<apiVars, uiVars, document, facilitiesCache, lastAll>>

getAllFacilities == enterCatalog("getAllFacilities", "")
getFacilitiesByCenter(centerName) == enterCatalog("getFacilitiesByCenter", centerName)
getUniqueCenters == enterCatalog("getUniqueCenters", "")

\* The record of the getAllFacilities call that has just read doc and
\* returned r, given the record of the one before.
noteCall(last, doc, r) ==
    [calls |-> IF last.calls = 0 THEN 1 ELSE 2,
     changed |-> last.calls > 0 /\ last.read # doc,
     read |-> doc, result |-> r]

\* Variant: once a list has been loaded, it is served from facilitiesCache.
getAllFacilitiesSettled_cached ==
    /\ cat.op = "getAllFacilities" /\ cat.pc = "readFile"
    /\ LET r == IF facilitiesCache.loaded THEN Value(facilitiesCache.facilities)
                ELSE getAllFacilitiesTry(document)
       IN  /\ cat' = [cat EXCEPT !.pc = "done", !.read = document,
                                 !.result = getAllFacilitiesResult(impl, r)]
           /\ facilitiesCache' =
                 IF r.threw THEN facilitiesCache
                 ELSE [loaded |-> TRUE, facilities |-> r.value]
    /\ lastAll' = noteCall(lastAll, document, cat'.result)
    /\ UNCHANGED <<apiVars, uiVars, document>>

\* readFile settles with the document as it is now, and getAllFacilities
\* runs to its end: the list is stored in facilitiesCache and returned, or
\* the catch block reports the failure.
getAllFacilitiesSettled ==
    /\ cat.op = "getAllFacilities" /\ cat.pc = "readFile"
    /\ LET r == getAllFacilitiesTry(document)
       IN  /\ cat' = [cat EXCEPT !.pc = "done", !.read = document,
                                 !.result = getAllFacilitiesResult(impl, r)]
           /\ facilitiesCache' =
                 IF r.threw THEN facilitiesCache
                 ELSE [loaded |-> TRUE, facilities |-> r.value]
    /\ lastAll' = noteCall(lastAll, document, cat'.result)
    /\ UNCHANGED <<apiVars, uiVars, document>>

\* readFile settles and getFacilitiesByCenter runs to its end.
getFacilitiesByCenterSettled ==
    /\ cat.op = "getFacilitiesByCenter" /\ cat.pc = "readFile"
    /\ cat' = [cat EXCEPT
                 !.pc = "done", !.read = document,
                 !.result = getFacilitiesByCenterResult(
                                impl, getFacilitiesByCenterTry(document, cat.centerName))]
    /\ UNCHANGED <<apiVars, uiVars, document, facilitiesCache, lastAll>>

\* readFile settles and getUniqueCenters runs to its end.
getUniqueCentersSettled ==
    /\ cat.op = "getUniqueCenters" /\ cat.pc = "readFile"
    /\ cat' = [cat EXCEPT !.pc = "done", !.read = document,
                          !.result = getUniqueCentersResult(impl, getUniqueCentersTry(document))]
    /\ UNCHANGED <<apiVars, uiVars, document, facilitiesCache, lastAll>>

\* clearCache: the in-memory list is dropped (the file it then unlinks is
\* facilities_cache.json, not the catalog document).
clearCache ==
    /\ facilitiesCache' = NullCache
    /\ UNCHANGED <<apiVars, uiVars, document, cat, lastAll>>

\* The catalog document is replaced on disk.
writeDocument(doc) ==
    /\ doc # document
    /\ document' = doc
    /\ UNCHANGED <<apiVars, uiVars, facilitiesCache, cat, lastAll>>

\* The center names callers ask for: the names of the catalog, a name no
\* catalog has, and the name of a property every object inherits.
CenterArguments == CenterNames \cup {"Nowhere", "constructor"}

\* ------------------------------------------------------------------------
\* The system.
\* ------------------------------------------------------------------------
\* The steps of the client; the catalog is left alone.
Next ==
    \/ \E c \in CallIds : refreshCookies(c) /\ UNCHANGED <<catalogVars, uiVars>>
    \/ \E c \in CallIds : launchResolved(c) /\ UNCHANGED <<catalogVars, uiVars>>
    \/ \E c \in CallIds, e \in LaunchErrors : launchRejected(c, e) /\ UNCHANGED <<catalogVars, uiVars>>
    \/ \E c \in CallIds : gotoResolved(c) /\ UNCHANGED <<catalogVars, uiVars>>
    \/ \E c \in CallIds, e \in NavigationErrors : gotoRejected(c, e) /\ UNCHANGED <<catalogVars, uiVars>>
    \/ \E c \in CallIds, cs \in Harvests : cookiesResolved(c, cs) /\ UNCHANGED <<catalogVars, uiVars>>
    \/ \E c \in CallIds, e \in CookieReadErrors : cookiesRejected(c, e) /\ UNCHANGED <<catalogVars, uiVars>>
    \/ \E c \in CallIds : closeResolved(c) /\ UNCHANGED <<catalogVars, uiVars>>
    \/ \E c \in CallIds : getFacilityAvailability(c, facility, today) /\ UNCHANGED <<catalogVars, uiVars>>
    \/ \E c \in CallIds :
           getFacilityWeeklyAvailability(c, facility, today, today) /\ UNCHANGED <<catalogVars, uiVars>>
    \/ \E c \in CallIds, r \in SuccessResponses :
           axiosResolved(c, r[1], r[2]) /\ UNCHANGED <<catalogVars, uiVars>>
    \/ \E c \in CallIds : \E e \in RequestErrors(c) : axiosRejected(c, e) /\ UNCHANGED <<catalogVars, uiVars>>

Spec == Init /\ [][Next]_vars
SpecJs == InitJs /\ [][Next]_vars

\* The catalog loader alone, over every document: one operation per run.
InitCatalogSpec == impl = "ts" /\ InitCommon /\ InitCatalog(Documents) /\ InitUi
NextCatalog ==
    \/ cat.pc = "idle" /\ getAllFacilities
    \/ \E n \in CenterArguments : cat.pc = "idle" /\ getFacilitiesByCenter(n)
    \/ cat.pc = "idle" /\ getUniqueCenters
    \/ getAllFacilitiesSettled
    \/ getFacilitiesByCenterSettled
    \/ getUniqueCentersSettled
SpecCatalog == InitCatalogSpec /\ [][NextCatalog]_vars

\* The catalog loader called again and again while the document is
\* rewritten and the cache cleared, over the documents with one center.
RewrittenDocuments ==
    {MissingDocument}
        \cup {d \in ExpectedDocuments :
                 Len(d.centers) <= 1 /\ \A i \in 1..Len(d.centers) : d.centers[i].key = "arena"}
InitCacheSpec == impl = "ts" /\ InitCommon /\ InitCatalog(RewrittenDocuments) /\ InitUi
NextCache ==
    \/ getAllFacilities
    \/ \E n \in CenterArguments : getFacilitiesByCenter(n)
    \/ getUniqueCenters
    \/ getAllFacilitiesSettled
    \/ getFacilitiesByCenterSettled
    \/ getUniqueCentersSettled
    \/ clearCache
    \/ \E d \in RewrittenDocuments : writeDocument(d)
SpecCache == InitCacheSpec /\ [][NextCache]_vars

\* One caller that makes its calls one after the other, with every choice
\* of dates: a call is made when no other is under way, and a settled call
\* leaves nothing behind but the jar.
Alone == \A c \in CallIds : pc[c] = "idle"
forget(c) ==
    /\ pc[c] = "done"
    /\ pc' = [pc EXCEPT ![c] = "idle"]
    /\ kind' = [kind EXCEPT ![c] = "none"]
    /\ result' = [result EXCEPT ![c] = NoResult]
    /\ startedEmpty' = [startedEmpty EXCEPT ![c] = FALSE]
    /\ launches' = [launches EXCEPT ![c] = 0]
    /\ requests' = [requests EXCEPT ![c] = 0]
    /\ response' = [response EXCEPT ![c] = NoResponse]
    /\ args' = [args EXCEPT ![c] = NoArgs]
    /\ refreshed' = [refreshed EXCEPT ![c] = "no"]
    /\ UNCHANGED <<impl, cookies, browsers, pending, sent, installed>>

\* The continuations of call c: an awaited promise settles.
settle(c) ==
    \/ launchResolved(c)
    \/ \E e \in LaunchErrors : launchRejected(c, e)
    \/ gotoResolved(c)
    \/ \E e \in NavigationErrors : gotoRejected(c, e)
    \/ \E cs \in Harvests : cookiesResolved(c, cs)
    \/ \E e \in CookieReadErrors : cookiesRejected(c, e)
    \/ closeResolved(c)
    \/ \E r \in SuccessResponses : axiosResolved(c, r[1], r[2])
    \/ \E e \in RequestErrors(c) : axiosRejected(c, e)

NextSeq ==
    \/ \E c \in CallIds : Alone /\ refreshCookies(c) /\ UNCHANGED <<catalogVars, uiVars>>
    \/ \E c \in CallIds, d \in Dates :
           Alone /\ getFacilityAvailability(c, facility, d) /\ UNCHANGED <<catalogVars, uiVars>>
    \/ \E c \in CallIds, s \in Dates, e \in Dates :
           Alone /\ getFacilityWeeklyAvailability(c, facility, s, e) /\ UNCHANGED <<catalogVars, uiVars>>
    \/ \E c \in CallIds : settle(c) /\ UNCHANGED <<catalogVars, uiVars>>
    \/ \E c \in CallIds : forget(c) /\ UNCHANGED <<catalogVars, uiVars>>

\* Every awaited promise settles: puppeteer gives up on a launch or a
\* navigation after 30 s, axios on a request after its timeout.
Fairness == \A c \in CallIds : WF_vars(settle(c) /\ UNCHANGED <<catalogVars, uiVars>>)
SpecSeq == Init /\ [][NextSeq]_vars /\ Fairness

TypeOK ==
    /\ impl \in {"ts", "js"}
    /\ browsers \subseteq CallIds
    /\ \A c \in CallIds :
        /\ kind[c] \in {"none", "refresh", "daily", "weekly"}
        /\ pc[c] \in {"idle", "launch", "goto", "cookies", "close", "axios", "done"}
        /\ refreshed[c] \in {"no", "ok", "failed", "threw"}
    /\ cat.op \in {"none", "getAllFacilities", "getFacilitiesByCenter", "getUniqueCenters"}
    /\ cat.pc \in {"idle", "readFile", "done"}
    /\ cat.reads \in 0..1
    /\ lastAll.calls \in 0..2
    /\ facilitiesCache.loaded \in BOOLEAN
    /\ booking.pc \in {"idle", "all", "done"}
    /\ booking.isLoading \in BOOLEAN
    /\ booking.filteredFacilities \subseteq FacilityIds
    /\ \A id \in FacilityIds : booking.mappers[id] \in {"none", "pending", "stored", "caught"}
    /\ home.selectedFacility \in ViewCenters \cup {""}
    /\ home.selectedResource \in Resources \cup {NoResource}
    /\ resourceList.resources \subseteq Resources
    /\ Len(resourceList.inFlight) <= MaxInFlight
    /\ Len(timeView.inFlight) <= MaxInFlight
    /\ facilityBookingApp.phase \in
           {"launching", "waiting", "starting", "creating", "running", "failed", "quit"}
    /\ facilityBookingApp.promise \in {"none", "pending", "resolved", "rejected"}
    /\ facilityBookingApp.output \in 0..MaxOutput

IsQuery(c) == kind[c] \in {"daily", "weekly"}
Done(c) == pc[c] = "done"

\* What a query returns for the response its request settled with.
RequestResult(c) ==
    IF response[c].settled = "resolved"
    THEN availabilityTry(impl, kind[c], response[c].status, response[c].data)
    ELSE availabilityCatch(impl, kind[c], response[c].error)

RefreshInFlight == {c \in CallIds : pc[c] \in {"launch", "goto", "cookies", "close"}}

\* ------------------------------------------------------------------------
\* C1.  A failing cookie refresh does not abort an availability query: a
\* query that started with an empty jar and whose refresh failed (failure
\* result or exception) has issued its one outbound request, and once done
\* has returned that request's result.
\* ------------------------------------------------------------------------
C1_FailedRefreshDoesNotAbortQuery ==
    \A c \in CallIds :
        (IsQuery(c) /\ startedEmpty[c] /\ refreshed[c] \in {"failed", "threw"})
            => /\ requests[c] = 1
               /\ Done(c) => /\ response[c].settled # "none"
                             /\ result[c] = RequestResult(c)

\* ------------------------------------------------------------------------
\* C2.  refreshCookies never throws past its boundary: every refresh that
\* has ended ended with a returned result, a failure carrying a message, and
\* the browser was launched exactly once for it.
\* ------------------------------------------------------------------------
C2_RefreshNeverThrows ==
    \A c \in CallIds :
        /\ launches[c] <= 1
        /\ refreshed[c] # "threw"
        /\ (kind[c] = "refresh" /\ Done(c))
               => /\ result[c].state = "returned"
                  /\ result[c].wrapped
                  /\ ~result[c].success => Len(result[c].error) > 0

\* ------------------------------------------------------------------------
\* C3.  Every browser launched by refreshCookies is closed on every exit
\* path: an open browser belongs to a refresh still in flight, so open
\* browsers never outnumber the refreshes in flight, and none is open once
\* every call has returned.
\* ------------------------------------------------------------------------
C3_BrowsersClosed ==
    /\ browsers \subseteq RefreshInFlight
    /\ Cardinality(browsers) <= Cardinality(RefreshInFlight)
    /\ (\A c \in CallIds : pc[c] \in {"idle", "done"}) => browsers = {}

C3_Witness ==
    /\ \A c \in CallIds : Done(c)
    /\ \E c \in CallIds : refreshed[c] = "failed"
    /\ \E c \in CallIds : refreshed[c] = "ok"
    /\ browsers = {}

\* ------------------------------------------------------------------------
\* C4.  The jar changes only when a refresh succeeds, and is then replaced
\* wholesale: it is empty at construction; a step changes it only if it is
\* the step in which a refresh receives its cookie list and goes on to return
\* success; after such a step the jar holds exactly the cookies of that list.
\* ------------------------------------------------------------------------
C4_JarChangesOnlyOnSuccessfulRefresh ==
    /\ cookies = EmptyJar
    /\ [][LET assigning == {c \in CallIds : /\ pc[c] = "cookies"
                                            /\ pc'[c] = "close"
                                            /\ pending'[c].success}
          IN  /\ cookies' # cookies => assigning # {}
              /\ assigning # {} => /\ JarAsMap(cookies') = installed'
                                   /\ UniqueNames(cookies')
         ]_vars

\* Two direct refreshes succeeded, one reporting two cookies and one
\* reporting one, and the jar holds one: the two-cookie jar was discarded.
C4_Witness ==
    \E c, d \in CallIds :
        /\ kind[c] = "refresh" /\ Done(c) /\ refreshed[c] = "ok"
        /\ kind[d] = "refresh" /\ Done(d) /\ refreshed[d] = "ok"
        /\ result[c] = refreshSuccess(impl, <<[name |-> "JSESSIONID", value |-> "a1"],
                                              [name |-> "BIGipServer", value |-> "c3"]>>)
        /\ result[d] = refreshSuccess(impl, <<[name |-> "BIGipServer", value |-> "c3"]>>)
        /\ Len(cookies) = 1

\* ------------------------------------------------------------------------
\* C5.  With refreshes running concurrently the last one to assign wins: in
\* every state the jar is exactly the cookie list of the refresh whose
\* assignment happened last (the empty jar before any), never a mixture.
\* ------------------------------------------------------------------------
C5_LastAssignmentWins ==
    /\ JarAsMap(cookies) = installed
    /\ UniqueNames(cookies)

\* Two refreshes in flight at once, both past their assignment, with
\* different cookie lists.
C5_Witness ==
    \E c, d \in CallIds :
        /\ c # d
        /\ pc[c] = "close" /\ pending[c].success
        /\ pc[d] = "close" /\ pending[d].success
        /\ pending[c] # pending[d]

\* ------------------------------------------------------------------------
\* C6.  A query triggers a cookie refresh if and only if the jar is empty
\* when the call starts, and never more than one: a query has launched one
\* browser if it started with an empty jar and none otherwise.
\* ------------------------------------------------------------------------
C6_RefreshIffEmptyAtStart ==
    \A c \in CallIds :
        IsQuery(c) =>
            /\ launches[c] = (IF startedEmpty[c] THEN 1 ELSE 0)
            /\ ~startedEmpty[c] => (c \notin browsers /\ refreshed[c] = "no")

C6_Witness ==
    \E c, d \in CallIds :
        /\ IsQuery(c) /\ Done(c) /\ startedEmpty[c] /\ launches[c] = 1
        /\ IsQuery(d) /\ Done(d) /\ ~startedEmpty[d] /\ launches[d] = 0

\* ------------------------------------------------------------------------
\* C7.  A query does not mutate the jar on failure: the step in which a
\* query's request fails and the query ends with a failure leaves the jar as
\* it is, launches no browser and sends nothing; and a query that has ended
\* starts no refresh afterwards.
\* ------------------------------------------------------------------------
C7_FailedQueryLeavesJar ==
    [][\A c \in CallIds :
           /\ (IsQuery(c) /\ pc[c] = "axios" /\ pc'[c] = "done"
                          /\ ~(result'[c].state = "returned" /\ result'[c].success))
                  => /\ cookies' = cookies
                     /\ launches' = launches
                     /\ browsers' = browsers
                     /\ requests' = requests
           /\ (IsQuery(c) /\ Done(c))
                  => /\ pc'[c] = "done"
                     /\ launches'[c] = launches[c]
                     /\ requests'[c] = requests[c]
      ]_vars

\* A query ended with the failure of a 403 answer while the jar held cookies.
C7_Witness ==
    \E c \in CallIds :
        /\ IsQuery(c) /\ Done(c)
        /\ response[c] = Rejected(StatusError(403))
        /\ ~result[c].success
        /\ Len(cookies) > 0

C9_Status403IsFailureResult ==
    \A c \in CallIds :
        (IsQuery(c) /\ Done(c) /\ response[c] = Rejected(StatusError(403)))
            => /\ result[c].state = "returned"
               /\ result[c].wrapped
               /\ ~result[c].success
               /\ Contains(result[c].error, "403")

\* ------------------------------------------------------------------------
\* C10.  Queries are never retried: a call issues at most one outbound
\* request, and a query whose request was rejected (non-2xx, timeout,
\* transport failure) ends with a failure result carrying the rejection's
\* message.
\* ------------------------------------------------------------------------
C10_NoRetry ==
    \A c \in CallIds :
        /\ requests[c] <= 1
        /\ (IsQuery(c) /\ Done(c) /\ response[c].settled = "rejected")
               => /\ result[c].state = "returned"
                  /\ result[c].wrapped
                  /\ ~result[c].success
                  /\ result[c].error = response[c].error.message

C10_Witness ==
    \E c \in CallIds :
        /\ IsQuery(c) /\ Done(c) /\ requests[c] = 1
        /\ response[c] = Rejected(TimeoutError(requestTimeout(kind[c])))
        /\ ~result[c].success

\* ------------------------------------------------------------------------
\* C11.  Every failure is turned into a structured result at the boundary
\* of the component: whatever faults occur, a call of getAllFacilities,
\* getFacilitiesByCenter, getUniqueCenters, getFacilityAvailability,
\* getFacilityWeeklyAvailability or refreshCookies that has ended has
\* returned an object with a `success` field, and a failure among them
\* carries an error message; none has thrown.
\* ------------------------------------------------------------------------
C11_EveryCallResolvesStructured ==
    /\ \A c \in CallIds :
           Done(c) => /\ result[c].state = "returned"
                      /\ result[c].wrapped
                      /\ ~result[c].success => Len(result[c].error) > 0
    /\ cat.pc = "done" => /\ cat.result.state = "returned"
                          /\ cat.result.wrapped
                          /\ ~cat.result.success => Len(cat.result.error) > 0

\* ------------------------------------------------------------------------
\* C12.  getAllFacilities fails when the catalog document is missing or is
\* not of the expected mapping shape (center name -> record with a
\* `facilities` list): whenever the document it read is not of that shape,
\* it has reported a failure rather than a list, after reading the file
\* once.
\* ------------------------------------------------------------------------
C12_UnexpectedDocumentFails ==
    (cat.op = "getAllFacilities" /\ cat.pc = "done" /\ cat.read \notin ExpectedDocuments)
        => /\ cat.reads = 1
           /\ cat.result.state = "thrown" \/ (cat.result.wrapped /\ ~cat.result.success)

\* Number of resources listed under the centers before the i-th.
RECURSIVE resourcesBefore(_, _)
resourcesBefore(cs, i) ==
    IF i <= 1 THEN 0
    ELSE Len(cs[i - 1].data.facilities.items) + resourcesBefore(cs, i - 1)

\* The list `data` holds the resources of the document in document order:
\* the j-th resource of the i-th center comes after all resources of the
\* centers before it and after the first j-1 of its own, with its id and
\* with the key of its center as center_name.
InDocumentOrder(doc, data) ==
    /\ Len(data) = TotalResources(doc)
    /\ \A i \in 1..Len(doc.centers) :
          \A j \in 1..Len(doc.centers[i].data.facilities.items) :
              LET f == data[resourcesBefore(doc.centers, i) + j]
              IN  /\ f.id = doc.centers[i].data.facilities.items[j].id
                  /\ f.named
                  /\ f.center_name = doc.centers[i].key

AllFacilitiesLoaded ==
    cat.op = "getAllFacilities" /\ cat.pc = "done" /\ cat.read \in ExpectedDocuments

FacilitiesByCenterLoaded ==
    cat.op = "getFacilitiesByCenter" /\ cat.pc = "done" /\ cat.read \in ExpectedDocuments

\* The center asked for is in the document, with no resources listed: its
\* `facilities` list is empty or missing.
CenterWithoutResources(doc, centerName) ==
    /\ HasCenter(doc, centerName)
    /\ Len(CenterAt(doc, centerName).data.facilities.items) = 0

\* ------------------------------------------------------------------------
\* C14.  getFacilitiesByCenter returns a successful empty list, not an
\* error, when the center name is falsy, when the document has no such key,
\* and when the key is there with an empty or missing `facilities` list: in
\* all three cases the result is the same {success: true, data: []}.
\* ------------------------------------------------------------------------
C14_UnknownCenterIsEmptySuccess ==
    (/\ FacilitiesByCenterLoaded
     /\ \/ cat.centerName = ""
        \/ ~HasCenter(cat.read, cat.centerName)
        \/ CenterWithoutResources(cat.read, cat.centerName))
        => cat.result = CatSuccess(<<>>)

\* A center whose record has no `facilities` property was asked for, in a
\* catalog that lists resources under another center.
C14_Witness ==
    /\ FacilitiesByCenterLoaded
    /\ cat.centerName = "arena"
    /\ HasCenter(cat.read, "arena")
    /\ CenterAt(cat.read, "arena").data.facilities.kind = "absent"
    /\ TotalResources(cat.read) > 0
    /\ cat.result.success

UniqueCentersLoaded ==
    cat.op = "getUniqueCenters" /\ cat.pc = "done" /\ cat.read \in ExpectedDocuments

\* ------------------------------------------------------------------------
\* C15.  getUniqueCenters returns exactly the top-level keys of the catalog
\* document in ascending code-unit order (upper case before lower case):
\* every key is in the list, every entry of the list is a key, and each
\* entry is strictly below the next, so none is repeated.
\* ------------------------------------------------------------------------
C15_CentersAreTheSortedKeys ==
    UniqueCentersLoaded
        => LET centers == cat.result.data
           IN  /\ cat.result.success
               /\ {centers[i] : i \in 1..Len(centers)}
                      = {cat.read.centers[i].key : i \in 1..Len(cat.read.centers)}
               /\ \A i \in 1..Len(centers) - 1 :
                      codeUnitRank(centers[i]) < codeUnitRank(centers[i + 1])

\* The document lists "arena" before "Burnhamthorpe"; the result has them
\* the other way round.
C15_Witness ==
    /\ UniqueCentersLoaded
    /\ keysOf(cat.read) = <<"arena", "Burnhamthorpe">>
    /\ cat.result.data = <<"Burnhamthorpe", "arena">>

\* What a catalog operation returns when it reads the document doc: the
\* result of its try block on that document, and nothing else.
CatalogResult(i, op, centerName, doc) ==
    CASE op = "getAllFacilities" -> getAllFacilitiesResult(i, getAllFacilitiesTry(doc))
      [] op = "getFacilitiesByCenter" ->
             getFacilitiesByCenterResult(i, getFacilitiesByCenterTry(doc, centerName))
      [] op = "getUniqueCenters" -> getUniqueCentersResult(i, getUniqueCentersTry(doc))

\* A getAllFacilities call returns now, having read what the getAllFacilities
\* call before it read.
SameDocumentReadAgain ==
    /\ cat.op = "getAllFacilities" /\ cat.pc = "readFile" /\ cat'.pc = "done"
    /\ lastAll.calls > 0
    /\ lastAll.read = cat'.read

\* ------------------------------------------------------------------------
\* C16.  The result of every catalog operation depends only on the content
\* of the document when the call reads it; facilitiesCache has no part in
\* it.  A finished operation has returned what its code yields for the
\* content it read; a getAllFacilities call on a document of the expected
\* shape has returned that document's resources, whatever was loaded
\* before; and a getAllFacilities call that reads the same content as the
\* one before it returns an identical result.
\* ------------------------------------------------------------------------
C16_ResultsFollowTheDocument ==
    /\ [](cat.pc = "done"
             => /\ cat.result = CatalogResult(impl, cat.op, cat.centerName, cat.read)
                /\ AllFacilitiesLoaded
                       => /\ cat.result.success
                          /\ InDocumentOrder(cat.read, cat.result.data))
    /\ [][SameDocumentReadAgain => cat'.result = lastAll.result]_vars

\* A second getAllFacilities call has read another content than the first
\* and has returned the resources of the new content, not those loaded
\* before.
C16_Witness ==
    /\ AllFacilitiesLoaded
    /\ lastAll.calls = 2
    /\ lastAll.changed
    /\ lastAll.read = cat.read
    /\ Len(cat.result.data) = 1
    /\ facilitiesCache.loaded

\* ------------------------------------------------------------------------
\* C17.  Every record that leaves the catalog loader carries the name of
\* its center: the records getFacilitiesByCenter(c) returns are the
\* resources listed under c, each with center_name = c, the records
\* getAllFacilities returns each have the key of their center, and a
\* center_name written in the document is replaced by that key.
\* ------------------------------------------------------------------------
C17_CenterNameIsTheKey ==
    /\ (FacilitiesByCenterLoaded /\ cat.centerName # "" /\ HasCenter(cat.read, cat.centerName))
           => LET listed == CenterAt(cat.read, cat.centerName).data.facilities.items
              IN  /\ cat.result.success
                  /\ Len(cat.result.data) = Len(listed)
                  /\ \A p \in 1..Len(listed) :
                        /\ cat.result.data[p].id = listed[p].id
                        /\ cat.result.data[p].named
                        /\ cat.result.data[p].center_name = cat.centerName
    /\ AllFacilitiesLoaded
           => \A p \in 1..Len(cat.result.data) :
                 /\ cat.result.data[p].named
                 /\ \E i \in 1..Len(cat.read.centers) :
                       /\ cat.result.data[p].center_name = cat.read.centers[i].key
                       /\ p > resourcesBefore(cat.read.centers, i)
                       /\ p <= resourcesBefore(cat.read.centers, i + 1)

\* A resource written with center_name "Old Hall" under the center "arena"
\* has been returned by getFacilitiesByCenter("arena") with center_name
\* "arena".
C17_Witness ==
    /\ FacilitiesByCenterLoaded
    /\ cat.centerName = "arena"
    /\ HasCenter(cat.read, "arena")
    /\ \E p \in 1..Len(cat.result.data) :
          /\ CenterAt(cat.read, "arena").data.facilities.items[p].named
          /\ CenterAt(cat.read, "arena").data.facilities.items[p].center_name = "Old Hall"
          /\ cat.result.data[p].center_name = "arena"

\* ------------------------------------------------------------------------
\* C18.  Dates are passed on as given.  The one request of a weekly query
\* called with (s, e) has start_date = s and end_date = e, whatever the two
\* strings, e before s included; the one request of a daily query called
\* with d has start_date = end_date = d.  No query ends without having sent
\* its request, unless the browser launch of its refresh threw (C1).
\* ------------------------------------------------------------------------
C18_DatesForwardedUnchanged ==
    \A c \in CallIds :
        /\ (IsQuery(c) /\ pc[c] = "axios")
               => /\ requests[c] = 1
                  /\ kind[c] = "daily"
                         => /\ sent[c].params.start_date = args[c].date
                            /\ sent[c].params.end_date = args[c].date
                  /\ kind[c] = "weekly"
                         => /\ sent[c].params.start_date = args[c].startDate
                            /\ sent[c].params.end_date = args[c].endDate
        /\ (IsQuery(c) /\ Done(c) /\ refreshed[c] # "threw")
               => requests[c] = 1 /\ response[c].settled # "none"

\* The request of a weekly query whose end date is before its start date is
\* in flight, with the two dates as given.
C18_Witness ==
    \E c \in CallIds :
        /\ kind[c] = "weekly" /\ pc[c] = "axios"
        /\ args[c].startDate = today /\ args[c].endDate = lastWeek
        /\ sent[c].params = [start_date |-> today, end_date |-> lastWeek]

\* The header h is the serialisation of the jar: for the k-th entry of the
\* jar the k-th `name=value` pair, pairs separated by "; ", and nothing
\* else.
SerializesJar(h, jar) ==
    /\ Len(h) = 4 * Len(jar) - 1
    /\ \A k \in 1..Len(jar) :
          /\ h[4 * k - 3] = jar[k].name
          /\ h[4 * k - 2] = "="
          /\ h[4 * k - 1] = jar[k].value
          /\ k < Len(jar) => h[4 * k] = "; "

\* Call c builds and sends its request in this step.
RequestBuilt(c) == requests'[c] = requests[c] + 1

\* ------------------------------------------------------------------------
\* C19.  Every outbound request carries the jar as it is when the request
\* is built: the Cookie header is attached exactly when the jar is not
\* empty at that moment, and it then holds one name=value pair for each
\* entry of the jar, in the jar's order, and no other.
\* ------------------------------------------------------------------------
C19_RequestCarriesTheJar ==
    [][\A c \in CallIds :
          RequestBuilt(c)
              => /\ sent'[c].hasCookie <=> Len(cookies) > 0
                 /\ sent'[c].hasCookie => SerializesJar(sent'[c].Cookie, cookies)
                 /\ ~sent'[c].hasCookie => sent'[c].Cookie = <<>>]_vars

\* A query that found the jar empty when it started has its request in
\* flight with both cookies a refresh has put into the jar since.
C19_Witness ==
    \E c \in CallIds :
        /\ IsQuery(c) /\ pc[c] = "axios" /\ startedEmpty[c]
        /\ sent[c].hasCookie
        /\ Len(cookies) = 2
        /\ SerializesJar(sent[c].Cookie, cookies)

\* ------------------------------------------------------------------------
\* C20.  Availability queries fail rather than hang: every query that has
\* been called comes to its end with a result, whether the backend answers,
\* answers with an error or never answers (the request times out), and
\* whether or not the query had to refresh the cookies first.
\* ------------------------------------------------------------------------
C20_QueriesTerminate ==
    \A c \in CallIds :
        (IsQuery(c) /\ ~Done(c)) ~> (Done(c) /\ result[c].state # "pending")

\* A query that refreshed the cookies first and whose request ran into the
\* timeout has returned a failure.
C20_Witness ==
    \E c \in CallIds :
        /\ IsQuery(c) /\ Done(c) /\ startedEmpty[c]
        /\ refreshed[c] = "ok"
        /\ response[c] = Rejected(TimeoutError(requestTimeout(kind[c])))
        /\ result[c].state = "returned" /\ ~result[c].success

\* The cookie count a successful refresh result states: the number in its
\* message (ApiService.ts) or its cookieCount field (ApiService.js).
ReportsCount(r, n) ==
    IF r.wrapped /\ r.cookieCount = -1
    THEN r.message = <<"Got ", ToString(n), " cookies">>
    ELSE r.cookieCount = n

\* ------------------------------------------------------------------------
\* C21.  A successful refreshCookies reports the cookie count: the value it
\* prepares when it replaces the jar states the number of entries the jar
\* has right after that replacement, and that value, unchanged, is what the
\* call returns once its browser is closed, whatever other refreshes have
\* done to the jar in between.
\* ------------------------------------------------------------------------
C21_CountIsJarSizeAtReplacement ==
    [][\A c \in CallIds :
          /\ (pc[c] = "cookies" /\ pc'[c] = "close" /\ pending'[c].success)
                 => ReportsCount(pending'[c], Len(cookies'))
          /\ (kind[c] = "refresh" /\ pc[c] = "close" /\ pc'[c] = "done")
                 => result'[c] = pending[c]]_vars

\* A refresh has returned a count of two although the jar, replaced since
\* by another refresh, has one entry.
C21_Witness ==
    \E c \in CallIds :
        /\ kind[c] = "refresh" /\ Done(c) /\ result[c].success
        /\ ReportsCount(result[c], 2)
        /\ Len(cookies) = 1

\* ------------------------------------------------------------------------
\* C26.  When a query triggers a cookie refresh, the refresh is over, its
\* browser closed, before the request of that query is sent: a query that
\* found the jar empty and has sent its request has ended its refresh with
\* a result and has no browser open, then and ever after.
\* ------------------------------------------------------------------------
C26_RefreshOverBeforeRequest ==
    \A c \in CallIds :
        (IsQuery(c) /\ startedEmpty[c] /\ requests[c] > 0)
            => /\ c \notin browsers
               /\ refreshed[c] \in {"ok", "failed"}
               /\ launches[c] = 1

\* The request of a query that refreshed first is in flight, its own
\* browser closed, while the browser of another call is open.
C26_Witness ==
    \E c \in CallIds :
        /\ IsQuery(c) /\ startedEmpty[c] /\ pc[c] = "axios"
        /\ refreshed[c] = "ok"
        /\ c \notin browsers
        /\ browsers # {}

\* The queries that found the jar empty when they were called.
EmptyStarters == {c \in CallIds : IsQuery(c) /\ startedEmpty[c]}

\* ------------------------------------------------------------------------
\* C27.  Triggered refreshes are not shared between calls: every query
\* called while the jar is empty launches a browser of its own, exactly
\* one, however many other refreshes are under way, and each of these
\* refreshes that succeeds puts its own harvest into the jar.
\* ------------------------------------------------------------------------
C27_EachQueryRefreshesForItself ==
    /\ [](\A c \in EmptyStarters : launches[c] = 1)
    /\ [][\A c \in EmptyStarters :
             (pc[c] = "cookies" /\ pc'[c] = "close" /\ pending'[c].success)
                 => JarAsMap(cookies') = installed']_vars

\* All calls are queries made while the jar was empty, and the browsers of
\* all of them are open at the same time.
C27_Witness ==
    /\ EmptyStarters = CallIds
    /\ browsers = CallIds
    /\ \A c \in CallIds : launches[c] = 1

\* What the three operations return for one document of the expected
\* shape: the centers getUniqueCenters lists, the records of
\* getAllFacilities whose center_name is c, and the records of
\* getFacilitiesByCenter(c).
CentersListed(doc) == getUniqueCentersTry(doc).value
RecordsOfCenter(doc, c) ==
    SelectSeq(getAllFacilitiesTry(doc).value, LAMBDA f : f.center_name = c)
RecordsByCenter(doc, c) == getFacilitiesByCenterTry(doc, c).value

RECURSIVE sumByCenter(_, _, _)
sumByCenter(doc, centers, i) ==
    IF i > Len(centers) THEN 0
    ELSE Len(RecordsByCenter(doc, centers[i])) + sumByCenter(doc, centers, i + 1)

\* ------------------------------------------------------------------------
\* C30.  The three catalog operations agree on one document.  Whenever one
\* of them has returned for a document of the expected shape: for every
\* center c that getUniqueCenters lists for that document,
\* getFacilitiesByCenter(c) yields exactly the records of getAllFacilities
\* whose center_name is c, in the same order; and the lists of all centers
\* together have as many records as getAllFacilities, so each of its
\* records is in exactly one of them.
\* ------------------------------------------------------------------------
C30_CatalogOperationsAgree ==
    (cat.pc = "done" /\ cat.read \in ExpectedDocuments)
        => /\ cat.result = CatalogResult(impl, cat.op, cat.centerName, cat.read)
           /\ \A i \in 1..Len(CentersListed(cat.read)) :
                 RecordsByCenter(cat.read, CentersListed(cat.read)[i])
                     = RecordsOfCenter(cat.read, CentersListed(cat.read)[i])
           /\ sumByCenter(cat.read, CentersListed(cat.read), 1)
                  = Len(getAllFacilitiesTry(cat.read).value)

\* ========================================================================
\* The search page: FacilityBookingUI (src/unnamed/part_001).
\* ========================================================================

\* The batch of the search under way: the facilities it queries, in the
\* order of filteredFacilities when it was issued.
Batch == {id \in FacilityIds : booking.mappers[id] # "none"}
Settled == {id \in Batch : booking.mappers[id] # "pending"}

\* async searchAvailability(), up to `await Promise.all(promises)`.  The
\* search button is disabled while isLoading is set.
searchAvailability ==
    /\ ~booking.isLoading
    /\ IF booking.filteredFacilities = {} \/ booking.bookingDate = ""
       THEN booking' = [booking EXCEPT !.status = "warning"]
       ELSE booking' =
                [booking EXCEPT
                    !.isLoading = TRUE,
                    !.availabilityData = EmptyMap,
                    !.pc = "all",
                    !.selectedDate = booking.bookingDate,
                    !.mappers = [id \in FacilityIds |->
                                    IF id \in booking.filteredFacilities
                                    THEN "pending" ELSE "none"],
                    !.answers = EmptyMap,
                    !.dateChanged = FALSE]
    /\ UNCHANGED <<apiVars, catalogVars, facilityBookingApp, pageVars>>

\* Variant: the results are stored in the order they arrive, under the ids
\* of the batch in submission order.
queryResolved_byArrival(id, availability) ==
    /\ booking.mappers[id] = "pending"
    /\ availability \in Availabilities(id, booking.selectedDate)
    /\ LET slot == CHOOSE k \in Batch : Cardinality({j \in Batch : j < k}) = Cardinality(Settled)
       IN  booking' = [booking EXCEPT
                          !.availabilityData[slot] = availability,
                          !.mappers[id] = "stored",
                          !.answers[id] = availability]
    /\ UNCHANGED <<apiVars, catalogVars, facilityBookingApp, pageVars>>

\* The query of one facility resolved: the mapper goes on after its await
\* and does this.availabilityData.set(facility.id, availability).
queryResolved(id, availability) ==
    /\ booking.mappers[id] = "pending"
    /\ availability \in Availabilities(id, booking.selectedDate)
    /\ booking' = [booking EXCEPT
                      !.availabilityData[id] = availability,
                      !.mappers[id] = "stored",
                      !.answers[id] = availability]
    /\ UNCHANGED <<apiVars, catalogVars, facilityBookingApp, pageVars>>

\* Variant: the mapper does not catch, Promise.all rejects with the first
\* failure and searchAvailability ends in its own catch and finally.
queryRejected_abortsBatch(id) ==
    /\ booking.mappers[id] = "pending"
    /\ booking' = [booking EXCEPT
                      !.mappers[id] = "caught",
                      !.status = IF booking.pc = "all" THEN "error" ELSE @,
                      !.isLoading = IF booking.pc = "all" THEN FALSE ELSE @,
                      !.pc = "done"]
    /\ UNCHANGED <<apiVars, catalogVars, facilityBookingApp, pageVars>>

\* The query of one facility rejected: the catch of the mapper logs the
\* error and the mapper's promise is fulfilled all the same.
queryRejected(id) ==
    /\ booking.mappers[id] = "pending"
    /\ booking' = [booking EXCEPT !.mappers[id] = "caught"]
    /\ UNCHANGED <<apiVars, catalogVars, facilityBookingApp, pageVars>>

\* Promise.all(promises) is fulfilled once every mapper is: the try after
\* it and the finally of searchAvailability.
searchSettled ==
    /\ booking.pc = "all"
    /\ Settled = Batch
    /\ booking' = [booking EXCEPT
                      !.facilitiesList = cards(booking.filteredFacilities,
                                               booking.availabilityData),
                      !.status = "success",
                      !.isLoading = FALSE,
                      !.pc = "done"]
    /\ UNCHANGED <<apiVars, catalogVars, facilityBookingApp, pageVars>>

\* The 'change' listener of the date input.
bookingDateChanged(date) ==
    /\ date # booking.bookingDate
    /\ booking' = [booking EXCEPT
                      !.bookingDate = date,
                      !.availabilityData = EmptyMap,
                      !.facilitiesList = cards(booking.filteredFacilities, EmptyMap),
                      !.dateChanged = TRUE]
    /\ UNCHANGED <<apiVars, catalogVars, facilityBookingApp, pageVars>>

\* filterFacilities(), the 'change' listener of the two selects: the
\* facilities that pass the new filter.
filterFacilities(passing) ==
    /\ booking' = [booking EXCEPT
                      !.filteredFacilities = passing,
                      !.facilitiesList = cards(passing, booking.availabilityData),
                      !.status = "info"]
    /\ UNCHANGED <<apiVars, catalogVars, facilityBookingApp, pageVars>>

\* The search page alone.
NextBooking ==
    \/ searchAvailability
    \/ \E id \in FacilityIds :
           \E a \in Availabilities(id, booking.selectedDate) : queryResolved(id, a)
    \/ \E id \in FacilityIds : queryRejected(id)
    \/ searchSettled
    \/ \E d \in {"", today} : bookingDateChanged(d)
    \/ \E passing \in SUBSET FacilityIds : filterFacilities(passing)
SpecBooking == Init /\ [][NextBooking]_vars

\* The map a finished batch must have left: the answer of every query that
\* resolved, under the id the query was made for, and nothing else.
AnswersById ==
    [id \in FacilityIds |->
        IF booking.mappers[id] = "stored" THEN booking.answers[id] ELSE NoAvailability]

\* ------------------------------------------------------------------------
\* C22.  A batch tolerates the failure of any of its queries.  While the
\* batch is awaited the loading flag is set; searchAvailability gets past
\* Promise.all only when every query of the batch has settled, whichever
\* of them failed; it then has the result of every query that resolved in
\* availabilityData (unless the date input was changed meanwhile, which
\* empties the map), the list shows the cards of the facilities that pass
\* the filter with these results, and the loading flag is cleared.
\* ------------------------------------------------------------------------
C22_BatchToleratesFailures ==
    /\ booking.pc = "all" => booking.isLoading
    /\ booking.pc = "done" =>
          /\ Settled = Batch
          /\ ~booking.isLoading
          /\ booking.facilitiesList
                 = cards(booking.filteredFacilities, booking.availabilityData)
          /\ ~booking.dateChanged =>
                 \A id \in Batch :
                     booking.mappers[id] = "stored"
                         => booking.availabilityData[id] = booking.answers[id]

\* A batch of all facilities is over, one of its queries failed, two
\* resolved, and the list shows the two results.
C22_Witness ==
    /\ booking.pc = "done" /\ ~booking.dateChanged /\ ~booking.isLoading
    /\ Batch = FacilityIds
    /\ booking.filteredFacilities = FacilityIds
    /\ Cardinality({id \in Batch : booking.mappers[id] = "caught"}) = 1
    /\ \A id \in Batch :
           booking.mappers[id] = "stored"
               => booking.facilitiesList[id] = booking.answers[id]

\* ------------------------------------------------------------------------
\* C23.  The results of a batch are correlated by facility id.  As long as
\* the date input is left alone, every entry of availabilityData is the
\* answer to the query made for the id it is stored under, for the date of
\* the batch, at every moment and in whatever order the queries settle;
\* and when the batch is over the map is determined by the answers alone:
\* it holds the answer of each query that resolved under its id, and no
\* other entry.
\* ------------------------------------------------------------------------
C23_ResultsKeyedById ==
    ~booking.dateChanged =>
        /\ \A id \in FacilityIds :
               booking.availabilityData[id] # NoAvailability
                   => /\ booking.mappers[id] = "stored"
                      /\ booking.availabilityData[id] = booking.answers[id]
                      /\ booking.availabilityData[id].facilityId = id
                      /\ booking.availabilityData[id].date = booking.selectedDate
        /\ booking.pc = "done" => booking.availabilityData = AnswersById

\* The query of the last facility has resolved and is stored under its id
\* while the query of the first facility, submitted before it, is pending.
C23_Witness ==
    /\ booking.pc = "all" /\ ~booking.dateChanged
    /\ Batch = FacilityIds
    /\ booking.mappers[1] = "pending"
    /\ booking.mappers[MaxFacilities] = "stored"
    /\ booking.availabilityData[MaxFacilities] = booking.answers[MaxFacilities]
    /\ booking.answers[MaxFacilities].success

\* ========================================================================
\* The calendar page: Home (src/pages/index.tsx), ResourceList
\* (src/components/ResourceList.tsx), TimeView (src/unnamed/part_004).
\* An event handler runs together with the render and the effects that
\* follow from its state updates; a response is handled by the function
\* instance that made the request.
\* ========================================================================

\* Without the i-th element.
without(s, i) == SubSeq(s, 1, i - 1) \o SubSeq(s, i + 1, Len(s))

\* loadResources(facilityName), up to its await.
loadResources(list, facilityName) ==
    [list EXCEPT !.loading = TRUE, !.error = FALSE,
                 !.inFlight = Append(@, facilityName)]

\* The effect of ResourceList on selectedFacility.
resourceListEffect(list, selectedFacility) ==
    IF selectedFacility # "" THEN loadResources(list, selectedFacility)
    ELSE [list EXCEPT !.resources = {}]

\* fetchWeeklyAvailability(startDate, endDate) of the render in which
\* selectedResource is `resource`, up to its await.
fetchWeeklyAvailability(view, resource, startDate, endDate) ==
    IF resource = NoResource THEN view
    ELSE [view EXCEPT
             !.loading = TRUE, !.error = FALSE,
             !.inFlight = Append(@, WeeklyRequest(resource, startDate, endDate)),
             !.requested = WeeklyRequest(resource, startDate, endDate)]

\* The effect of TimeView on [selectedResource, persistedWeekStart].
timeViewEffect(view, selectedResource, persistedWeekStart, now) ==
    IF selectedResource # NoResource
    THEN LET targetDate == IF persistedWeekStart # NoDate THEN persistedWeekStart ELSE now
             weekRange == getWeekRange(targetDate)
         IN  fetchWeeklyAvailability([view EXCEPT !.currentWeekStart = weekRange.monday],
                                     selectedResource, weekRange.start, weekRange.end)
    ELSE [view EXCEPT !.weeklyData = NoWeekly, !.events = NoWeekly, !.error = FALSE]

\* What each component renders.
listShown ==
    home.selectedFacility # "" /\ ~resourceList.loading /\ ~resourceList.error
calendarShown ==
    home.selectedResource # NoResource /\ ~timeView.loading /\ ~timeView.error
retryShown ==
    home.selectedResource # NoResource /\ ~timeView.loading /\ timeView.error

\* Home.handleFacilitySelect(facilityName), from the onChange of the
\* dropdown, with the effects of ResourceList and TimeView.
handleFacilitySelect(facilityName) ==
    /\ facilityName # home.selectedFacility
    /\ facilityName # "" => Len(resourceList.inFlight) < MaxInFlight
    /\ home' = [home EXCEPT !.selectedFacility = facilityName,
                            !.selectedResource = NoResource]
    /\ resourceList' = resourceListEffect(resourceList, facilityName)
    /\ timeView' = IF home.selectedResource # NoResource
                   THEN timeViewEffect(timeView, NoResource, home.persistedWeekStart, NoDate)
                   ELSE timeView
    /\ UNCHANGED <<apiVars, catalogVars, facilityBookingApp, booking>>

\* getFacilitiesByCenter settled for the i-th request in flight: the rest
\* of loadResources.
resourcesArrived(i, success) ==
    /\ i \in 1..Len(resourceList.inFlight)
    /\ resourceList' =
           [resourceList EXCEPT
               !.resources = IF success THEN resourcesOf(resourceList.inFlight[i]) ELSE @,
               !.error = IF success THEN @ ELSE TRUE,
               !.loading = FALSE,
               !.inFlight = without(@, i)]
    /\ UNCHANGED <<apiVars, catalogVars, facilityBookingApp, booking, home, timeView>>

\* Home.handleResourceSelect(resource), from a click on an item of the
\* list, with the effect of TimeView.
handleResourceSelect(resource, now) ==
    /\ listShown
    /\ resource \in resourceList.resources
    /\ resource # home.selectedResource
    /\ Len(timeView.inFlight) < MaxInFlight
    /\ home' = [home EXCEPT !.selectedResource = resource]
    /\ timeView' = timeViewEffect(timeView, resource, home.persistedWeekStart, now)
    /\ UNCHANGED <<apiVars, catalogVars, facilityBookingApp, booking, resourceList>>

\* TimeView.handleWeekNavigation(newDate), from the toolbar of the
\* calendar (the date shown moved by a week), with the effect of TimeView
\* on the new persistedWeekStart.
handleWeekNavigation(newDate) ==
    /\ calendarShown
    /\ Len(timeView.inFlight) + 2 <= MaxInFlight
    /\ LET weekRange == getWeekRange(newDate)
           direct == fetchWeeklyAvailability(
                         [timeView EXCEPT !.currentWeekStart = weekRange.monday],
                         home.selectedResource, weekRange.start, weekRange.end)
       IN  /\ home' = [home EXCEPT !.persistedWeekStart = weekRange.monday]
           /\ timeView' = timeViewEffect(direct, home.selectedResource,
                                         weekRange.monday, NoDate)
    /\ UNCHANGED <<apiVars, catalogVars, facilityBookingApp, booking, resourceList>>

\* The button "Retry Loading Calendar" of the error view.
retryLoading(now) ==
    /\ retryShown
    /\ Len(timeView.inFlight) < MaxInFlight
    /\ timeView' = fetchWeeklyAvailability(timeView, home.selectedResource,
                                           getWeekRange(now).start, getWeekRange(now).end)
    /\ UNCHANGED <<apiVars, catalogVars, facilityBookingApp, booking, home, resourceList>>

\* getFacilityWeeklyAvailability settled for the i-th request in flight:
\* the rest of fetchWeeklyAvailability.
weeklyArrived(i, success) ==
    /\ i \in 1..Len(timeView.inFlight)
    /\ timeView' =
           [timeView EXCEPT
               !.weeklyData = IF success THEN timeView.inFlight[i] ELSE @,
               !.events = IF success THEN timeView.inFlight[i] ELSE @,
               !.error = IF success THEN @ ELSE TRUE,
               !.loading = FALSE,
               !.inFlight = without(@, i)]
    /\ UNCHANGED <<apiVars, catalogVars, facilityBookingApp, booking, home, resourceList>>

\* The dates the toolbar can hand to handleWeekNavigation: the week before
\* and the week after the one shown.
Weeks == 0..MaxWeek
NavigatedDates ==
    {d \in {addDays(timeView.currentWeekStart, 0 - DaysOfWeek),
            addDays(timeView.currentWeekStart, DaysOfWeek)} :
        d.day \div DaysOfWeek \in Weeks /\ d.day >= 0}

\* The dropdown and the resource list alone.
NextResources ==
    \/ \E n \in ViewCenters \cup {""} : handleFacilitySelect(n)
    \/ \E i \in 1..MaxInFlight, ok \in BOOLEAN : resourcesArrived(i, ok)
SpecResources == Init /\ [][NextResources]_vars

\* The calendar alone, from the moment the resources of a center are
\* listed: the user picks resources, moves between weeks and retries.
InitCalendar ==
    /\ impl = "ts" /\ InitCommon /\ InitCatalog({JsonObject(<<>>)}) /\ InitBooking
    /\ InitApp({FALSE}, {"win32"})
    /\ home = [selectedFacility |-> "Burnhamthorpe", selectedResource |-> NoResource,
               persistedWeekStart |-> NoDate]
    /\ resourceList = [resources |-> resourcesOf("Burnhamthorpe"), loading |-> FALSE,
                       error |-> FALSE, inFlight |-> <<>>]
    /\ InitTimeView
NextCalendar ==
    \/ \E r \in Resources, now \in Nows : handleResourceSelect(r, now)
    \/ \E d \in NavigatedDates : handleWeekNavigation(d)
    \/ \E now \in Nows : retryLoading(now)
    \/ \E i \in 1..MaxInFlight, ok \in BOOLEAN : weeklyArrived(i, ok)
SpecCalendar == InitCalendar /\ [][NextCalendar]_vars

\* ------------------------------------------------------------------------
\* C28.  The resource list ends up matching the selected facility: when no
\* getFacilitiesByCenter request is in flight any more and the list is
\* shown, the resources in it are those of the facility selected in Home.
\* ------------------------------------------------------------------------
C28_ListMatchesSelectedFacility ==
    (resourceList.inFlight = <<>> /\ listShown)
        => resourceList.resources = resourcesOf(home.selectedFacility)

\* The week a Date falls in, and the request for the Monday-to-Sunday
\* range of a week.
PresentWeek == 1
weekOf(date) == date.day \div DaysOfWeek
MondayToSunday(resource, week) ==
    WeeklyRequest(resource, DaysOfWeek * week, DaysOfWeek * week + 6)

\* A step in which TimeView issues a request.
IssuesRequest == Len(timeView'.inFlight) > Len(timeView.inFlight)

\* ------------------------------------------------------------------------
\* C24.  The calendar week persists across resource changes.  A step that
\* selects another resource issues the weekly request for the Monday-to-
\* Sunday range of the persisted week if there is one, of the present week
\* otherwise; and no step issues a request for another week than the
\* persisted one once a week is persisted.
\* ------------------------------------------------------------------------
C24_WeekPersistsAcrossResources ==
    /\ [][(home'.selectedResource # home.selectedResource
              /\ home'.selectedResource # NoResource)
            => /\ IssuesRequest
               /\ timeView'.requested =
                      MondayToSunday(home'.selectedResource,
                                     IF home.persistedWeekStart # NoDate
                                     THEN weekOf(home.persistedWeekStart)
                                     ELSE PresentWeek)]_vars
    /\ [][(IssuesRequest /\ home'.persistedWeekStart # NoDate)
            => timeView'.requested =
                   MondayToSunday(home'.selectedResource,
                                  weekOf(home'.persistedWeekStart))]_vars

\* ------------------------------------------------------------------------
\* C29.  The calendar ends up showing the latest request: the loading flag
\* is set whenever a weekly request is in flight, and when none is in
\* flight any more and the calendar is shown, its events are those of the
\* request issued last.
\* ------------------------------------------------------------------------
C29_CalendarShowsLatestRequest ==
    /\ timeView.inFlight # <<>> => timeView.loading
    /\ (timeView.inFlight = <<>> /\ calendarShown)
           => timeView.events = timeView.requested

\* ========================================================================
\* Start-up of the Electron main process: FacilityBookingApp (src/main.ts).
\* ========================================================================

\* resolve() of the promise of startNextServer: settles it if it is pending.
resolve(a) == [a EXCEPT !.promise = IF @ = "pending" THEN "resolved" ELSE @]

\* reject(error)
reject(a) == [a EXCEPT !.promise = IF @ = "pending" THEN "rejected" ELSE @]

\* createWindow(), up to `await this.mainWindow.loadURL(url)`.
createWindow(a) == [a EXCEPT !.windows = @ + 1]

\* app.whenReady() is fulfilled: the callback up to its first await.  In
\* production this runs the executor of startNextServer: spawn, the
\* listeners, the fallback timer.
whenReady ==
    /\ facilityBookingApp.phase = "launching"
    /\ facilityBookingApp' =
           IF facilityBookingApp.isDev
           THEN [facilityBookingApp EXCEPT !.phase = "waiting"]
           ELSE [facilityBookingApp EXCEPT
                    !.phase = "starting", !.nextProcess = "running",
                    !.serverReady = FALSE, !.promise = "pending",
                    !.fallbackTimer = TRUE]
    /\ UNCHANGED <<apiVars, catalogVars, booking, pageVars>>

\* Development: the 2-second timer fired, createWindow is called.
devTimerFired ==
    /\ facilityBookingApp.phase = "waiting"
    /\ facilityBookingApp' =
           [createWindow(facilityBookingApp) EXCEPT
               !.phase = "creating", !.startupWindows = @ + 1]
    /\ UNCHANGED <<apiVars, catalogVars, booking, pageVars>>

\* The 'data' listener of the server's stdout, for a chunk that does or
\* does not contain 'ready' or 'started server'.
stdoutData(readiness) ==
    /\ facilityBookingApp.nextProcess = "running"
    /\ facilityBookingApp.output < MaxOutput
    /\ facilityBookingApp' =
           IF readiness /\ ~facilityBookingApp.serverReady
           THEN [facilityBookingApp EXCEPT
                    !.output = @ + 1, !.serverReady = TRUE, !.readyTimer = TRUE]
           ELSE [facilityBookingApp EXCEPT !.output = @ + 1]
    /\ UNCHANGED <<apiVars, catalogVars, booking, pageVars>>

\* setTimeout(resolve, 1000) fired.
readyTimerFired ==
    /\ facilityBookingApp.readyTimer
    /\ facilityBookingApp' = [resolve(facilityBookingApp) EXCEPT !.readyTimer = FALSE]
    /\ UNCHANGED <<apiVars, catalogVars, booking, pageVars>>

\* Variant: the fallback timer only logs.
fallbackTimerFired_onlyLogs ==
    /\ facilityBookingApp.fallbackTimer
    /\ facilityBookingApp' = [facilityBookingApp EXCEPT !.fallbackTimer = FALSE]
    /\ UNCHANGED <<apiVars, catalogVars, booking, pageVars>>

\* The fallback timer of 10 seconds fired.
fallbackTimerFired ==
    /\ facilityBookingApp.fallbackTimer
    /\ facilityBookingApp' =
           IF ~facilityBookingApp.serverReady
           THEN [resolve(facilityBookingApp) EXCEPT !.fallbackTimer = FALSE]
           ELSE [facilityBookingApp EXCEPT !.fallbackTimer = FALSE]
    /\ UNCHANGED <<apiVars, catalogVars, booking, pageVars>>

\* The 'error' listener of the child process.
spawnError ==
    /\ facilityBookingApp.nextProcess = "running"
    /\ facilityBookingApp' = [reject(facilityBookingApp) EXCEPT !.nextProcess = "failed"]
    /\ UNCHANGED <<apiVars, catalogVars, booking, pageVars>>

\* `await this.startNextServer()` returned: createWindow is called.
serverStarted ==
    /\ facilityBookingApp.phase = "starting"
    /\ facilityBookingApp.promise = "resolved"
    /\ facilityBookingApp' =
           [createWindow(facilityBookingApp) EXCEPT
               !.phase = "creating", !.startupWindows = @ + 1]
    /\ UNCHANGED <<apiVars, catalogVars, booking, pageVars>>

\* `await this.startNextServer()` threw: the callback ends there.
serverFailed ==
    /\ facilityBookingApp.phase = "starting"
    /\ facilityBookingApp.promise = "rejected"
    /\ facilityBookingApp' = [facilityBookingApp EXCEPT !.phase = "failed"]
    /\ UNCHANGED <<apiVars, catalogVars, booking, pageVars>>

\* loadURL settled: the rest of createWindow (the fallback page if it
\* failed), then the callback registers the 'activate' listener.
loadURLSettled(ok) ==
    /\ facilityBookingApp.phase = "creating"
    /\ facilityBookingApp' =
           [facilityBookingApp EXCEPT
               !.loaded = IF ok THEN "url" ELSE "fallback.html",
               !.phase = "running", !.activate = TRUE]
    /\ UNCHANGED <<apiVars, catalogVars, booking, pageVars>>

\* The user closes the window; when it was the last, 'window-all-closed'
\* kills the server and, except on macOS, quits.
windowClosed ==
    /\ facilityBookingApp.phase = "running"
    /\ facilityBookingApp.windows > 0
    /\ facilityBookingApp' =
           IF facilityBookingApp.windows > 1 THEN [facilityBookingApp EXCEPT !.windows = @ - 1]
           ELSE [facilityBookingApp EXCEPT
                    !.windows = 0,
                    !.nextProcess = IF @ = "none" THEN @ ELSE "killed",
                    !.phase = IF facilityBookingApp.platform # "darwin" THEN "quit" ELSE @]
    /\ UNCHANGED <<apiVars, catalogVars, booking, pageVars>>

\* The 'activate' listener (macOS: the dock icon is clicked) when no
\* window is open; with a window open it does nothing.
activate ==
    /\ facilityBookingApp.phase = "running"
    /\ facilityBookingApp.activate
    /\ facilityBookingApp.platform = "darwin"
    /\ facilityBookingApp.windows = 0
    /\ facilityBookingApp' = createWindow(facilityBookingApp)
    /\ UNCHANGED <<apiVars, catalogVars, booking, pageVars>>

NextApp ==
    \/ whenReady
    \/ devTimerFired
    \/ \E readiness \in BOOLEAN : stdoutData(readiness)
    \/ readyTimerFired
    \/ fallbackTimerFired
    \/ spawnError
    \/ serverStarted
    \/ serverFailed
    \/ \E ok \in BOOLEAN : loadURLSettled(ok)
    \/ windowClosed
    \/ activate

\* Timers fire and an await whose promise is settled goes on; nothing is
\* assumed about the server's output or the child process.
FairnessApp ==
    /\ WF_vars(whenReady)
    /\ WF_vars(devTimerFired)
    /\ WF_vars(readyTimerFired)
    /\ WF_vars(fallbackTimerFired)
    /\ WF_vars(serverStarted)
    /\ WF_vars(serverFailed)
InitAppSpec ==
    /\ impl = "ts" /\ InitCommon /\ InitCatalog({JsonObject(<<>>)})
    /\ InitBooking /\ InitHome /\ InitResourceList /\ InitTimeView
    /\ InitApp(BOOLEAN, {"darwin", "win32"})
SpecApp == InitAppSpec /\ [][NextApp]_vars /\ FairnessApp

\* ------------------------------------------------------------------------
\* C25.  In production the window is eventually created, whatever the
\* server prints.  From the launch on, either the 'error' listener rejects
\* the promise of startNextServer or createWindow is called by the
\* start-up code; it is called there at most once, and only after the
\* promise was resolved; and the promise is resolved by the timer set on
\* the first readiness output or, if no readiness output came before it
\* fired, by the fallback timer.
\* ------------------------------------------------------------------------
C25_WindowEventuallyCreated ==
    /\ [](~facilityBookingApp.isDev =>
             /\ facilityBookingApp.startupWindows <= 1
             /\ facilityBookingApp.startupWindows = 1
                    => facilityBookingApp.promise = "resolved")
    /\ [][(facilityBookingApp.promise = "pending"
              /\ facilityBookingApp'.promise = "resolved")
            => \/ facilityBookingApp.readyTimer /\ ~facilityBookingApp'.readyTimer
               \/ /\ facilityBookingApp.fallbackTimer /\ ~facilityBookingApp'.fallbackTimer
                  /\ ~facilityBookingApp.serverReady]_vars
    /\ (~facilityBookingApp.isDev /\ facilityBookingApp.phase = "launching")
           ~> (facilityBookingApp.promise = "rejected"
                  \/ facilityBookingApp.startupWindows = 1)

\* Production: the server wrote its output without a readiness line, the
\* promise was resolved through the fallback and the window was created.
C25_Witness ==
    /\ ~facilityBookingApp.isDev
    /\ facilityBookingApp.output = MaxOutput
    /\ ~facilityBookingApp.serverReady
    /\ facilityBookingApp.promise = "resolved"
    /\ facilityBookingApp.startupWindows = 1
    /\ facilityBookingApp.windows = 1

====
